---------------------------- MODULE Spec2Model ----------------------------
(***************************************************************************)
(* A model of the karamel interpreter core:                                *)
(*   - the NaN-boxed value encoding (src/src/types.rs),                    *)
(*   - the virtual machine loop run_vm (src/src/vm/interpreter.rs),        *)
(*   - the module graph resolver (karamellib/src/compiler/module.rs).      *)
(* Each part has its own specification (SpecEnc, SpecVM, SpecMod) over the *)
(* variables below; a specification leaves the other parts' variables      *)
(* untouched.                                                              *)
(***************************************************************************)
EXTENDS Integers, Sequences, FiniteSets, TLC

VARIABLES
    heap,         \* the Rc allocations: <<[val, strong], ...>>, cell i at AddrOf(i)
    enc_pc,       \* encoding: "idle" | "converted" | "compared" | "decoded"
    prim,         \* encoding: the primitive handed to VmObject::convert
    obj,          \* encoding: the VmObject word convert returned
    out,          \* encoding: the primitive deref returned
    other,        \* encoding: the VmObject word obj was compared with
    same,         \* encoding: the result of obj == other
    held,         \* encoding: the handles deref returned that are not yet dropped
    opcodes,      \* run_vm: the bytes of options.opcodes read so far, from index on
    opcode_size,  \* run_vm: options.opcodes.len()
    index,        \* run_vm: the address of the instruction being dispatched
    opcode,       \* run_vm: the opcode decoded in this iteration
    mem_index,    \* run_vm: the number of live stack entries
    stack,        \* run_vm: options.storages[0].get_stack()
    memory,       \* run_vm: options.storages[0].get_memory()
    opcode_index, \* options.opcode_index
    vm_pc,        \* run_vm: "fetch" | "exec" | "ok" | "err" | "panic"
    vm_error,     \* run_vm: the message of the Err returned
    files,        \* modules: the .tpd file of each module path, as File::open finds it
    main_ast,     \* modules: the ast handed to get_modules
    registry,     \* modules: the modules registered in the compiler context
    storages,     \* modules: options.storages
    modules,      \* modules: the Vec get_modules fills and returns
    frames,       \* modules: the call stack of find_load_type / load_module
    result,       \* modules: "idle" | "running" | "ok" | "err" | "overflow"
    mod_error,    \* modules: the message of the Err returned
    data,         \* tokinizer: the characters of the source text
    tk_index,     \* tokinizer: the index of the current character
    tokens,       \* tokinizer: the tokens added so far
    lex_result,   \* tokinizer: "idle" | "ok" | the message of the Err returned
    kw_word,      \* keywords: the word of the KEYWORDS entry read
    keyword,      \* keywords: the BramaKeywordType of that entry
    operator,     \* keywords: what to_operator makes of that keyword
    syn_tokens,   \* syntax parser: the tokens read so far
    syn_pc,       \* syntax parser: what it expects next, "done" once it returned
    syn_fn,       \* syntax parser: the function definition being read
    syn_ast,      \* syntax parser: the statements parsed so far
    syn_result,   \* syntax parser: the Result that parse returns
    class_index,  \* class registry: the index looked up, -1 before any lookup
    class_entry,  \* class registry: the descriptor found at that index
    class_count,  \* class registry: the length of the table at the lookup
    program,      \* run_vm again: options.opcodes when known in full, else <<>>
    runs          \* run_vm again: the calls of run_vm on these options so far

encVars == <<enc_pc, prim, obj, out, other, same, held>>
vmVars == <<opcodes, opcode_size, index, opcode, mem_index, stack, memory,
            opcode_index, vm_pc, vm_error>>
modVars == <<files, main_ast, registry, storages, modules, frames, result, mod_error>>
classVars == <<class_index, class_entry, class_count>>
lexVars == <<data, tk_index, tokens, lex_result, kw_word, keyword, operator, classVars>>
parseVars == <<syn_tokens, syn_pc, syn_fn, syn_ast, syn_result>>
synVars == <<lexVars, parseVars>>
runVars == <<program, runs>>
vars == <<heap, encVars, vmVars, modVars, synVars, runVars>>

(***************************************************************************)
(* 64-bit words.  A u64 is four 16-bit limbs <<w3, w2, w1, w0>>, most      *)
(* significant first, so that the masks keep their width.                  *)
(***************************************************************************)
RECURSIVE BitAnd(_, _)
BitAnd(a, b) ==
    IF a = 0 \/ b = 0 THEN 0
    ELSE (a % 2) * (b % 2) + 2 * BitAnd(a \div 2, b \div 2)

RECURSIVE BitOr(_, _)
BitOr(a, b) ==
    IF a = 0 THEN b
    ELSE IF b = 0 THEN a
    ELSE (IF a % 2 = 1 \/ b % 2 = 1 THEN 1 ELSE 0) + 2 * BitOr(a \div 2, b \div 2)

WordAnd(x, y) == [i \in 1..4 |-> BitAnd(x[i], y[i])]
WordOr(x, y) == [i \in 1..4 |-> BitOr(x[i], y[i])]
U64(n) == <<0, 0, 0, n>>

TAG_NULL == 0
TAG_FALSE == 1
TAG_TRUE == 2

QNAN == <<32764, 0, 0, 0>>                 \* 0x7ffc_0000_0000_0000
POINTER_FLAG == <<32768, 0, 0, 0>>         \* 0x8000_0000_0000_0000
POINTER_MASK == <<0, 65535, 65535, 65535>> \* 0x0000_FFFF_FFFF_FFFF
FALSE_FLAG == WordOr(QNAN, U64(TAG_FALSE))
TRUE_FLAG == WordOr(QNAN, U64(TAG_TRUE))
EMPTY_FLAG == WordOr(QNAN, U64(TAG_NULL))

(***************************************************************************)
(* BramaPrimative.  A primitive is [k |-> kind, v |-> payload]; a Number's *)
(* payload is the bit pattern of its f64 (f64::to_bits / from_bits are the *)
(* identity on the 64 bits), a Text's payload is its sequence of chars.    *)
(***************************************************************************)
Empty == [k |-> "Empty", v |-> 0]
Bool(b) == [k |-> "Bool", v |-> b]
Number(bits) == [k |-> "Number", v |-> bits]
Text(s) == [k |-> "Text", v |-> s]
Atom(a) == [k |-> "Atom", v |-> a]
List(l) == [k |-> "List", v |-> l]
NoPrim == [k |-> "None", v |-> 0]
\* what reading through a pointer that is no live allocation may end in
Crash == [k |-> "Crash", v |-> 0]

\* f64: exponent bits all ones and a non-zero mantissa
is_nan(bits) ==
    /\ BitAnd(bits[1], 32752) = 32752
    /\ ~(bits[1] % 16 = 0 /\ bits[2] = 0 /\ bits[3] = 0 /\ bits[4] = 0)

IsZero(bits) == bits[1] % 32768 = 0 /\ bits[2] = 0 /\ bits[3] = 0 /\ bits[4] = 0

\* f64 ==: false when either side is NaN, +0 == -0, else the same bits
F64Eq(n, m) ==
    /\ ~is_nan(n)
    /\ ~is_nan(m)
    /\ (n = m \/ (IsZero(n) /\ IsZero(m)))

\* f64's own ==, under which no NaN equals any NaN
PrimEqIeee(l, r) == l.k = r.k /\ (IF l.k = "Number" THEN F64Eq(l.v, r.v) ELSE l.v = r.v)

\* impl PartialEq for BramaPrimative; the interpreter's BramaPrimative has
\* two more variants than that of types.rs, Dict and FuncNativeCall, which
\* are given value equality within the kind
RECURSIVE PrimEq(_, _)
PrimEq(l, r) ==
    CASE l.k = "Bool" /\ r.k = "Bool" -> l.v = r.v
      [] l.k = "Atom" /\ r.k = "Atom" -> l.v = r.v
      [] l.k = "List" /\ r.k = "List" ->
            /\ Len(l.v) = Len(r.v)
            /\ \A i \in 1..Len(l.v) : PrimEq(l.v[i], r.v[i])
      [] l.k = "Empty" /\ r.k = "Empty" -> TRUE
      [] l.k = "Number" /\ r.k = "Number" ->
            IF is_nan(l.v) /\ is_nan(r.v) THEN TRUE ELSE F64Eq(l.v, r.v)
      [] l.k = "Text" /\ r.k = "Text" -> l.v = r.v
      [] l.k = r.k /\ l.k \in {"Dict", "FuncNativeCall"} -> l.v = r.v
      [] OTHER -> FALSE

(***************************************************************************)
(* The heap of Rc<BramaPrimative> allocations.  Cell i lives at address    *)
(* AddrOf(i), a 48-bit user-space pointer, 8-byte aligned.                 *)
(***************************************************************************)
AddrOf(i) == <<0, 21845, 0, 8 * i>>

IndexOf(h, w) ==
    IF w[1] = 0 /\ w[2] = 21845 /\ w[3] = 0 /\ w[4] % 8 = 0
          /\ (w[4] \div 8) \in 1..Len(h)
    THEN w[4] \div 8 ELSE 0

IsHeapKind(p) == p.k \notin {"Empty", "Number", "Bool"}

\* VmObject::convert: the word for primitive p; a heap kind is boxed at the
\* address its Rc was allocated at (Rc::into_raw)
convert(p, addr) ==
    CASE p.k = "Empty" -> WordOr(QNAN, EMPTY_FLAG)
      [] p.k = "Number" -> p.v
      [] p.k = "Bool" -> WordOr(QNAN, IF p.v THEN TRUE_FLAG ELSE FALSE_FLAG)
      [] OTHER -> WordOr(WordOr(QNAN, POINTER_FLAG), WordAnd(POINTER_MASK, addr))

IsNumberWord(w) == WordAnd(w, QNAN) # QNAN
IsPointerWord(w) ==
    /\ ~IsNumberWord(w)
    /\ w \notin {WordOr(QNAN, EMPTY_FLAG), WordOr(QNAN, FALSE_FLAG), WordOr(QNAN, TRUE_FLAG)}
    /\ WordAnd(w, POINTER_FLAG) = POINTER_FLAG

\* VmObject::deref, for a word whose pointer (if it is one) is live in h
deref(h, w) ==
    CASE IsNumberWord(w) -> Number(w)
      [] ~IsNumberWord(w) /\ w = WordOr(QNAN, EMPTY_FLAG) -> Empty
      [] ~IsNumberWord(w) /\ w = WordOr(QNAN, FALSE_FLAG) -> Bool(FALSE)
      [] ~IsNumberWord(w) /\ w = WordOr(QNAN, TRUE_FLAG) -> Bool(TRUE)
      [] IsPointerWord(w) /\ IndexOf(h, WordAnd(w, POINTER_MASK)) # 0 ->
            h[IndexOf(h, WordAnd(w, POINTER_MASK))].val
      [] IsPointerWord(w) /\ IndexOf(h, WordAnd(w, POINTER_MASK)) = 0 -> Crash
      [] OTHER -> Empty

\* Rc::from_raw of an address that is no allocation is undefined behaviour
Dangling(h, w) == IsPointerWord(w) /\ IndexOf(h, WordAnd(w, POINTER_MASK)) = 0

(***************************************************************************)
(* f64 arithmetic.  The machine computes with the doubles whose low 48     *)
(* bits are zero; such a double is its top limb: sign, 11 exponent bits,   *)
(* 4 mantissa bits.  A decoded double is [c, s, q]: class "fin", "inf" or  *)
(* "nan", sign s, and for "fin" the magnitude q in units of 2^-8.          *)
(***************************************************************************)
RECURSIVE Pow2(_)
Pow2(n) == IF n = 0 THEN 1 ELSE 2 * Pow2(n - 1)

RECURSIVE Log2(_)
Log2(q) == IF q < 2 THEN 0 ELSE 1 + Log2(q \div 2)

Fin(s, q) == [c |-> "fin", s |-> s, q |-> q]
Inf(s) == [c |-> "inf", s |-> s, q |-> 0]
NaN == [c |-> "nan", s |-> 0, q |-> 0]
\* a result that is no double of the model's range or precision
NotRepr == [c |-> "none", s |-> 0, q |-> 0]

\* f64::from_bits on the doubles 2^-8 .. 31 (top limb e = 1015 .. 1027)
from_bits(w) ==
    LET s == w[1] \div 32768
        e == (w[1] % 32768) \div 16
        m == w[1] % 16
    IN  IF e = 2047 THEN (IF m = 0 /\ ~is_nan(w) THEN Inf(s) ELSE NaN)
        ELSE IF e = 0 /\ m = 0 THEN Fin(s, 0)
        ELSE IF e >= 1019 THEN Fin(s, (16 + m) * Pow2(e - 1019))
        ELSE Fin(s, (16 + m) \div Pow2(1019 - e))

\* the doubles the model holds
Representable(x) ==
    /\ x.c # "none"
    /\ x.c = "fin" /\ x.q > 0 =>
          /\ x.q < 8192
          /\ Log2(x.q) > 4 => x.q % Pow2(Log2(x.q) - 4) = 0

\* f64::to_bits of a finite or infinite double
to_bits(x) ==
    IF x.c = "inf" THEN <<x.s * 32768 + 32752, 0, 0, 0>>
    ELSE IF x.q = 0 THEN <<x.s * 32768, 0, 0, 0>>
    ELSE LET k == Log2(x.q)
             m == IF k >= 4 THEN x.q \div Pow2(k - 4) - 16 ELSE x.q * Pow2(4 - k) - 16
         IN  <<x.s * 32768 + (k + 1015) * 16 + m, 0, 0, 0>>

Xor(a, b) == (a + b) % 2
Signed(x) == IF x.s = 1 THEN 0 - x.q ELSE x.q

\* l + r
F64Add(x, y) ==
    IF x.c = "nan" \/ y.c = "nan" THEN NaN
    ELSE IF x.c = "inf" /\ y.c = "inf" THEN (IF x.s = y.s THEN x ELSE NaN)
    ELSE IF x.c = "inf" THEN x
    ELSE IF y.c = "inf" THEN y
    ELSE LET v == Signed(x) + Signed(y)
         IN  IF v = 0 THEN Fin(IF x.s = 1 /\ y.s = 1 THEN 1 ELSE 0, 0)
             ELSE IF v < 0 THEN Fin(1, 0 - v) ELSE Fin(0, v)

\* l - r
F64Sub(x, y) == F64Add(x, IF y.c = "nan" THEN y ELSE [y EXCEPT !.s = 1 - @])

\* l * r
F64Mul(x, y) ==
    IF x.c = "nan" \/ y.c = "nan" THEN NaN
    ELSE IF x.c = "inf" \/ y.c = "inf"
         THEN (IF (x.c = "fin" /\ x.q = 0) \/ (y.c = "fin" /\ y.q = 0)
               THEN NaN ELSE Inf(Xor(x.s, y.s)))
    ELSE IF (x.q * y.q) % 256 # 0 THEN NotRepr
    ELSE Fin(Xor(x.s, y.s), (x.q * y.q) \div 256)

\* l / r
F64Div(x, y) ==
    IF x.c = "nan" \/ y.c = "nan" THEN NaN
    ELSE IF x.c = "inf" THEN (IF y.c = "inf" THEN NaN ELSE Inf(Xor(x.s, y.s)))
    ELSE IF y.c = "inf" THEN Fin(Xor(x.s, y.s), 0)
    ELSE IF y.q = 0 THEN (IF x.q = 0 THEN NaN ELSE Inf(Xor(x.s, y.s)))
    ELSE IF (x.q * 256) % y.q # 0 THEN NotRepr
    ELSE Fin(Xor(x.s, y.s), (x.q * 256) \div y.q)

\* the order of the non-NaN doubles
Key(x) == IF x.c = "inf" THEN (IF x.s = 1 THEN 0 - 1000000 ELSE 1000000) ELSE Signed(x)
F64Lt(x, y) == x.c # "nan" /\ y.c # "nan" /\ Key(x) < Key(y)
F64Le(x, y) == x.c # "nan" /\ y.c # "nan" /\ Key(x) <= Key(y)

\* `f as usize`: toward zero, saturating, NaN is 0
Saturates(x) == x.c = "inf" /\ x.s = 0
as_usize(x) == IF x.c # "fin" \/ x.s = 1 THEN 0 ELSE x.q \div 256

\* the parts at rest, for the specifications that do not run them
EncIdle ==
    /\ enc_pc = "idle"
    /\ prim = NoPrim
    /\ obj = WordOr(QNAN, EMPTY_FLAG)
    /\ out = NoPrim
    /\ other = WordOr(QNAN, EMPTY_FLAG)
    /\ same = FALSE
    /\ held = 0

ModIdle ==
    /\ files = <<>>
    /\ main_ast = <<>>
    /\ registry = {}
    /\ storages = <<>>
    /\ modules = <<>>
    /\ frames = <<>>
    /\ result = "idle"
    /\ mod_error = ""

SynIdle ==
    /\ data = <<>>
    /\ tk_index = 0
    /\ tokens = <<>>
    /\ lex_result = "idle"
    /\ kw_word = ""
    /\ keyword = "None"
    /\ operator = "None"
    /\ syn_tokens = <<>>
    /\ syn_pc = "statement"
    /\ syn_fn = [name |-> "", arguments |-> <<>>, body |-> <<>>]
    /\ syn_ast = <<>>
    /\ syn_result = [status |-> "None", error |-> "", at |-> 0, ast |-> <<>>]
    /\ class_index = -1
    /\ class_entry = [name |-> ""]
    /\ class_count = 0

VmIdle ==
    /\ opcodes = <<>>
    /\ opcode_size = 0
    /\ index = 0
    /\ opcode = ""
    /\ mem_index = 0
    /\ stack = <<>>
    /\ memory = <<>>
    /\ opcode_index = 0
    /\ vm_pc = "ok"
    /\ vm_error = ""
    /\ program = <<>>
    /\ runs = 1

(***************************************************************************)
(* SpecEnc: encode a primitive with VmObject::convert, decode the word     *)
(* with VmObject::deref, drop the decoded handle.                          *)
(***************************************************************************)
MaxHeap == 2


\* the f64 bit patterns converted: zeros, ones, infinities, NaNs of both
\* signs with several payloads, and a NaN whose bits are those of a pointer
NumberBits ==
    {<<h, 0, 0, l>> :
        h \in {0, 16368, 32768, 49136, 32752, 65520, 32760, 65528, 32756, 32764, 65532},
        l \in {0, 1, 2, 3}}
        \cup {WordOr(WordOr(QNAN, POINTER_FLAG), AddrOf(1))}

EncPrims ==
    {Empty, Bool(TRUE), Bool(FALSE)}
        \cup {Number(b) : b \in NumberBits}
        \cup {Text(<<>>), Text(<<"a">>), Atom(7), List(<<>>), List(<<Number(<<32760, 0, 0, 0>>)>>)}

\* what undefined behaviour (Rc::from_raw of a non-allocation) may produce
UBOutcomes(w) == {Crash, Empty, Bool(TRUE), Number(w)}

\* the handles of one word held at a time
MaxHeld == 2

InitEnc ==
    /\ VmIdle
    /\ ModIdle
    /\ SynIdle
    /\ heap = <<>>
    /\ EncIdle

\* let obj = VmObject::convert(Rc::new(p))
EncConvert ==
    /\ enc_pc \in {"idle", "compared"}
    /\ \E p \in EncPrims :
        /\ prim' = p
        /\ IF IsHeapKind(p)
           THEN /\ Len(heap) < MaxHeap
                /\ heap' = Append(heap, [val |-> p, strong |-> 1])
                /\ obj' = convert(p, AddrOf(Len(heap) + 1))
           ELSE /\ heap' = heap
                /\ obj' = convert(p, AddrOf(0))
    /\ enc_pc' = "converted"
    /\ out' = NoPrim
    /\ other' = WordOr(QNAN, EMPTY_FLAG)
    /\ same' = FALSE
    /\ UNCHANGED <<held, vmVars, modVars, synVars, runVars>>

\* #[derive(PartialEq)] struct VmObject(pub u64): the u64s are compared
VmObjectEq(a, b) == a = b

\* the words of earlier converts obj is compared with: the word of every
\* allocation made so far (obj's own included) and some immediate words
EarlierWords(h) ==
    {convert(h[j].val, AddrOf(j)) : j \in 1..Len(h)}
        \cup {convert(q, AddrOf(0)) :
                q \in {Empty, Bool(TRUE), Number(<<0, 0, 0, 0>>),
                       Number(<<32768, 0, 0, 0>>), Number(<<32760, 0, 0, 0>>)}}

\* let same = obj == other
EncCompare ==
    /\ enc_pc = "converted"
    /\ \E w \in EarlierWords(heap) :
        /\ other' = w
        /\ same' = VmObjectEq(obj, w)
    /\ enc_pc' = "compared"
    /\ UNCHANGED <<heap, prim, obj, out, held, vmVars, modVars, synVars, runVars>>

\* Rc::from_raw taken as the owner of the word's count: the clone's
\* increment is undone when data goes out of scope
RcFromRawOwned(h, i) == h

\* ManuallyDrop::new(Rc::from_raw(pointer)); Rc::clone(&data)
RcClone(h, i) == [h EXCEPT ![i].strong = @ + 1]

\* let out = obj.deref()
EncDeref ==
    /\ enc_pc \in {"converted", "decoded"}
    /\ held < MaxHeld
    /\ IF Dangling(heap, obj)
       THEN /\ out' \in UBOutcomes(obj)
            /\ heap' = heap
       ELSE /\ out' = deref(heap, obj)
            /\ heap' = IF IsPointerWord(obj)
                       THEN RcClone(heap, IndexOf(heap, WordAnd(obj, POINTER_MASK)))
                       ELSE heap
    /\ enc_pc' = "decoded"
    /\ held' = held + 1
    /\ UNCHANGED <<prim, obj, other, same, vmVars, modVars, synVars, runVars>>

\* drop(out): one handle goes; after the last one the word is at rest
EncDrop ==
    /\ enc_pc = "decoded"
    /\ heap' = IF IsPointerWord(obj) /\ ~Dangling(heap, obj)
               THEN LET i == IndexOf(heap, WordAnd(obj, POINTER_MASK))
                    IN [heap EXCEPT ![i].strong = @ - 1]
               ELSE heap
    /\ enc_pc' = IF held = 1 THEN "idle" ELSE "decoded"
    /\ out' = IF held = 1 THEN NoPrim ELSE out
    /\ held' = held - 1
    /\ UNCHANGED <<prim, obj, other, same, vmVars, modVars, synVars, runVars>>

NextEnc == EncConvert \/ EncCompare \/ EncDeref \/ EncDrop

SpecEnc == InitEnc /\ [][NextEnc]_vars

(***************************************************************************)
(* SpecVM: run_vm, the fetch-decode-dispatch loop.                         *)
(*                                                                         *)
(* options.opcodes is an input of run_vm.  The address of the loop only    *)
(* grows, so a byte is fixed when the loop first reads it: opcodes holds   *)
(* the bytes read so far from address index on, VmDecode reads the opcode  *)
(* byte and the operand bytes of the instruction at index, and the handler *)
(* of the opcode (one action each) executes it.                            *)
(***************************************************************************)
Dict(d) == [k |-> "Dict", v |-> d]

\* VmOpCode, in the order of its u8 values
OpCodes ==
    <<"None", "Addition", "Subraction", "Multiply", "Division", "And", "Or",
      "Equal", "NotEqual", "GreaterThan", "LessThan", "GreaterEqualThan",
      "LessEqualThan", "Not", "Increment", "Decrement", "Load", "Store",
      "CopyToStore", "FastStore", "Dublicate", "NativeCall", "InitList",
      "InitDict", "GetItem", "Compare", "Jump">>


\* mem::transmute::<u8, VmOpCode>(options.opcodes[index])
Decode(b) == OpCodes[b + 1]

\* the operand bytes a handler reads: options.opcodes[index + 1], [index + 2]
Operands(op) ==
    CASE op \in {"Load", "Store", "CopyToStore", "InitList", "InitDict"} -> 1
      [] op \in {"FastStore", "NativeCall", "Compare", "Jump"} -> 2
      [] OTHER -> 0

StackSize == 4
MaxCode == 6

\* the constants of storage 0, then its variables (build_memory)
Heap0 ==
    <<[val |-> Text(<<"a">>), strong |-> 1],
      [val |-> Text(<<>>), strong |-> 1],
      [val |-> [k |-> "FuncNativeCall", v |-> "f"], strong |-> 1],
      [val |-> Atom(7), strong |-> 1],
      [val |-> List(<<Number(<<16368, 0, 0, 0>>), Bool(TRUE)>>), strong |-> 1],
      [val |-> Dict({<<<<"a">>, Number(<<16388, 0, 0, 0>>)>>}), strong |-> 1]>>

EmptyWord == convert(Empty, AddrOf(0))

Memory0 ==
    <<<<0, 0, 0, 0>>,                       \* 0.0
      <<16368, 0, 0, 0>>,                   \* 1.0
      <<16388, 0, 0, 0>>,                   \* 2.5
      <<49136, 0, 0, 0>>,                   \* -1.0
      <<32752, 0, 0, 0>>,                   \* a literal too large for f64: +inf
      convert(Bool(TRUE), AddrOf(0)),
      convert(Bool(FALSE), AddrOf(0)),
      convert(Heap0[1].val, AddrOf(1)),
      convert(Heap0[2].val, AddrOf(2)),
      convert(Heap0[3].val, AddrOf(3)),
      convert(Heap0[4].val, AddrOf(4)),
      convert(Heap0[5].val, AddrOf(5)),     \* the list [1.0, true]
      convert(Heap0[6].val, AddrOf(6)),     \* the dict {"a": 2.5}
      EmptyWord>>

MemSize == Len(Memory0)

\* the operand bytes the fetched instructions carry
Operand1(op) ==
    CASE op = "Load" -> 0..MemSize
      [] op \in {"Store", "CopyToStore", "FastStore"} -> {MemSize - 1}
      [] op = "NativeCall" -> {9, 1}
      [] op = "InitList" -> 0..2
      [] op = "InitDict" -> 0..2
      [] op \in {"Compare", "Jump"} -> 0..2
      [] OTHER -> {}

Operand2(op) ==
    CASE op = "FastStore" -> {1, 7}
      [] op = "NativeCall" -> 0..2
      [] op \in {"Compare", "Jump"} -> {0, 1}
      [] OTHER -> {}

\* the byte sequences of length n that start with b0 and agree with the
\* bytes already read
CodeSeqs(b0, n) ==
    LET op == Decode(b0)
        all == IF n = 1 THEN {<<b0>>}
               ELSE IF n = 2 THEN {<<b0, a>> : a \in Operand1(op) \cup {opcodes[i] : i \in {2} \cap DOMAIN opcodes}}
               ELSE {<<b0, a, b>> : a \in Operand1(op) \cup {opcodes[i] : i \in {2} \cap DOMAIN opcodes},
                                   b \in Operand2(op) \cup {opcodes[i] : i \in {3} \cap DOMAIN opcodes}}
    IN  {c \in all : \A i \in DOMAIN opcodes : i <= n => c[i] = opcodes[i]}

Drop(seq, n) == IF n >= Len(seq) THEN <<>> ELSE SubSeq(seq, n + 1, Len(seq))

\* VmObject::from(value): the word of a result; a heap kind gets a new Rc
From(h, p) == convert(p, AddrOf(Len(h) + 1))
HeapAfter(h, p) == IF IsHeapKind(p) THEN Append(h, [val |-> p, strong |-> 1]) ELSE h

\* BramaPrimative::is_true
is_true(p) ==
    CASE p.k = "Empty" -> FALSE
      [] p.k = "Bool" -> p.v
      [] p.k = "Number" -> F64Lt(Fin(0, 0), from_bits(p.v))
      [] p.k = "Text" -> Len(p.v) > 0
      [] OTHER -> TRUE

\* BramaPrimative::get_text
get_text(p) == IF p.k = "Text" THEN p.v ELSE <<>>

\* the primitive of the i-th stack entry from the top (0 is the top)
Peek(i) == deref(heap, stack[mem_index - i])

InitVM ==
    /\ EncIdle
    /\ ModIdle
    /\ SynIdle
    /\ heap = Heap0
    /\ memory = Memory0
    /\ stack = [i \in 1..StackSize |-> EmptyWord]
    /\ opcode_size = MaxCode
    /\ opcode_index \in 0..MaxCode
    /\ index = opcode_index
    /\ mem_index = 0
    /\ opcodes = <<>>
    /\ opcode = ""
    /\ vm_pc = "fetch"
    /\ vm_error = ""
    /\ program = <<>>
    /\ runs = 1

\* while opcode_size > index { let opcode = transmute(options.opcodes[index]);
VmDecode ==
    /\ vm_pc = "fetch"
    /\ opcode_size > index
    /\ \E b0 \in (IF opcodes = <<>> THEN 0..(Len(OpCodes) - 1) ELSE {opcodes[1]}) :
         \E code \in CodeSeqs(b0, IF 1 + Operands(Decode(b0)) < opcode_size - index
                                       THEN 1 + Operands(Decode(b0))
                                       ELSE opcode_size - index) :
            /\ opcodes' = IF Len(opcodes) > Len(code) THEN opcodes ELSE code
            /\ opcode' = Decode(b0)
    /\ vm_pc' = "exec"
    /\ UNCHANGED <<heap, encVars, modVars, synVars, runVars, opcode_size, index, mem_index, stack, memory,
                   opcode_index, vm_error>>

\* the loop ends and Ok(()) is returned with options.opcode_index left as
\* it was on entry
VmExitKeepsEntry ==
    /\ vm_pc = "fetch"
    /\ ~(opcode_size > index)
    /\ vm_pc' = "ok"
    /\ UNCHANGED <<heap, encVars, modVars, synVars, runVars, opcodes, opcode_size, index, opcode, mem_index,
                   stack, memory, opcode_index, vm_error>>

\* the loop ends: options.opcode_index = index; Ok(())
VmExit ==
    /\ vm_pc = "fetch"
    /\ ~(opcode_size > index)
    /\ opcode_index' = index
    /\ vm_pc' = "ok"
    /\ UNCHANGED <<heap, encVars, modVars, synVars, runVars, opcodes, opcode_size, index, opcode, mem_index,
                   stack, memory, vm_error>>

\* VmOpCode::Compare: let status = match &*condition { ... }
CompareStatus(condition) ==
    CASE condition.k = "Empty" -> FALSE
      [] condition.k = "Atom" -> TRUE
      [] condition.k = "Bool" -> condition.v
      [] condition.k = "Number" -> F64Lt(Fin(0, 0), from_bits(condition.v))
      [] condition.k = "Text" -> Len(condition.v) > 0
      [] OTHER -> FALSE

\* the operand bytes of the decoded instruction
Arg1 == opcodes[2]
Arg2 == opcodes[3]

\* the stack entries a handler reads before it writes
Needs(op) ==
    CASE op \in {"Addition", "Subraction", "Multiply", "Division", "And", "Or",
                 "Equal", "NotEqual", "GreaterThan", "LessThan",
                 "GreaterEqualThan", "LessEqualThan", "GetItem"} -> 2
      [] op \in {"Not", "Increment", "Decrement", "Dublicate", "Store",
                 "CopyToStore", "Compare"} -> 1
      [] op = "InitList" -> Arg1
      [] op = "InitDict" -> 2 * Arg1
      [] OTHER -> 0

RECURSIVE Repeat(_, _)
Repeat(t, n) == IF n = 0 THEN <<>> ELSE t \o Repeat(t, n - 1)

\* String::repeat panics ("capacity overflow") when len * n exceeds usize
RepeatOverflows ==
    /\ opcode = "Multiply"
    /\ mem_index >= 2
    /\ Peek(1).k = "Text" /\ Peek(0).k = "Number"
    /\ Len(Peek(1).v) > 0
    /\ Saturates(from_bits(Peek(0).v))

\* the panics of the loop body: an operand byte past the end of opcodes, a
\* slot past the end of memory, a pop below or a push above the stack
Traps ==
    \/ Len(opcodes) < 1 + Operands(opcode)
          /\ ~(opcode = "Compare" /\ mem_index > 0)
          /\ ~(opcode = "NativeCall" /\ Len(opcodes) = 2)
    \/ opcode = "NativeCall" /\ Len(opcodes) = 2 /\ Arg1 < MemSize
          /\ deref(heap, memory[Arg1 + 1]).k = "FuncNativeCall"
    \/ opcode = "Compare" /\ mem_index = 0
    \/ opcode \in {"Load", "Store", "CopyToStore", "FastStore", "NativeCall"}
          /\ Len(opcodes) >= 2 /\ Arg1 >= MemSize
    \/ opcode = "FastStore" /\ Len(opcodes) >= 3 /\ Arg2 >= MemSize
    \/ Len(opcodes) >= 1 + Operands(opcode) /\ Needs(opcode) > mem_index
    \/ Len(opcodes) >= 1 + Operands(opcode)
          /\ opcode \in {"Load", "InitList", "InitDict"}
          /\ mem_index - Needs(opcode) >= StackSize
    \/ opcode = "Dublicate" /\ mem_index >= StackSize
    \/ opcode = "Compare" /\ mem_index > 0 /\ Len(opcodes) < 3
          /\ ~CompareStatus(Peek(0))
    \/ RepeatOverflows

VmPanic ==
    /\ vm_pc = "exec"
    /\ Traps
    /\ vm_pc' = "panic"
    /\ UNCHANGED <<heap, encVars, modVars, synVars, runVars, opcodes, opcode_size, index, opcode, mem_index,
                   stack, memory, opcode_index, vm_error>>

\* the handler of opcode op runs
Exec(op) == vm_pc = "exec" /\ opcode = op /\ ~Traps

\* the loop goes round without index += 1: the instruction runs again
AdvanceAgain(n) ==
    /\ index' = index
    /\ opcodes' = opcodes
    /\ vm_pc' = "fetch"
    /\ UNCHANGED <<encVars, modVars, synVars, runVars, opcode_size, opcode, opcode_index, vm_error>>

\* index += n, for the handler's own increment and the loop's index += 1
Advance(n) ==
    /\ index' = index + n
    /\ opcodes' = Drop(opcodes, n)
    /\ vm_pc' = "fetch"
    /\ UNCHANGED <<encVars, modVars, synVars, runVars, opcode_size, opcode, opcode_index, vm_error>>

\* pop two, stack[mem_index] = VmObject::from(p); mem_index += 1
BinaryPush(p) ==
    /\ stack' = [stack EXCEPT ![mem_index - 1] = From(heap, p)]
    /\ heap' = HeapAfter(heap, p)
    /\ mem_index' = mem_index - 1
    /\ memory' = memory

\* stack[mem_index - 1] = VmObject::from(p)
ReplaceTop(p) ==
    /\ stack' = [stack EXCEPT ![mem_index] = From(heap, p)]
    /\ heap' = HeapAfter(heap, p)
    /\ UNCHANGED <<mem_index, memory>>

\* the Number results of an f64 operation (none when the model cannot hold it)
\* a NaN result has an unspecified sign (its payload is the default quiet NaN)
Numbers(x) ==
    IF ~Representable(x) THEN {}
    ELSE IF x.c = "nan" THEN {Number(<<32760, 0, 0, 0>>), Number(<<65528, 0, 0, 0>>)}
    ELSE {Number(to_bits(x))}

SubractionResult(left, right) ==
    IF left.k = "Number" /\ right.k = "Number"
    THEN Numbers(F64Sub(from_bits(left.v), from_bits(right.v)))
    ELSE {Empty}

AdditionResult(left, right) ==
    IF left.k = "Number" /\ right.k = "Number"
    THEN Numbers(F64Add(from_bits(left.v), from_bits(right.v)))
    ELSE IF left.k = "Text" /\ right.k = "Text" THEN {Text(left.v \o right.v)}
    ELSE {Empty}

\* a Multiply that repeats the text whichever side it is on
MultiplyResultEitherSide(left, right) ==
    IF left.k = "Number" /\ right.k = "Number"
    THEN Numbers(F64Mul(from_bits(left.v), from_bits(right.v)))
    ELSE IF left.k = "Text" /\ right.k = "Number"
    THEN {Text(Repeat(left.v, as_usize(from_bits(right.v))))}
    ELSE IF left.k = "Number" /\ right.k = "Text"
    THEN {Text(Repeat(right.v, as_usize(from_bits(left.v))))}
    ELSE {Empty}

MultiplyResult(left, right) ==
    IF left.k = "Number" /\ right.k = "Number"
    THEN Numbers(F64Mul(from_bits(left.v), from_bits(right.v)))
    ELSE IF left.k = "Text" /\ right.k = "Number"
    THEN {Text(Repeat(left.v, as_usize(from_bits(right.v))))}
    ELSE {Empty}

\* calculation.is_nan() gives Empty
DivisionResult(left, right) ==
    IF left.k = "Number" /\ right.k = "Number"
    THEN LET calculation == F64Div(from_bits(left.v), from_bits(right.v))
         IN  IF calculation.c = "nan" THEN {Empty} ELSE Numbers(calculation)
    ELSE {Empty}

VmSubraction ==
    /\ Exec("Subraction")
    /\ \E p \in SubractionResult(Peek(1), Peek(0)) : BinaryPush(p)
    /\ Advance(1)

VmAddition ==
    /\ Exec("Addition")
    /\ \E p \in AdditionResult(Peek(1), Peek(0)) : BinaryPush(p)
    /\ Advance(1)

VmMultiply ==
    /\ Exec("Multiply")
    /\ \E p \in MultiplyResult(Peek(1), Peek(0)) : BinaryPush(p)
    /\ Advance(1)

VmDivision ==
    /\ Exec("Division")
    /\ \E p \in DivisionResult(Peek(1), Peek(0)) : BinaryPush(p)
    /\ Advance(1)

VmLoad ==
    /\ Exec("Load")
    /\ stack' = [stack EXCEPT ![mem_index + 1] = memory[Arg1 + 1]]
    /\ mem_index' = mem_index + 1
    /\ UNCHANGED <<heap, memory>>
    /\ Advance(2)

\* the popped word pushed onto memory as a new slot
VmStorePushes ==
    /\ Exec("Store")
    /\ mem_index' = mem_index - 1
    /\ memory' = Append(memory, stack[mem_index])
    /\ UNCHANGED <<heap, stack>>
    /\ Advance(2)

VmStore ==
    /\ Exec("Store")
    /\ mem_index' = mem_index - 1
    /\ memory' = [memory EXCEPT ![Arg1 + 1] = stack[mem_index]]
    /\ UNCHANGED <<heap, stack>>
    /\ Advance(2)

\* the copied word popped as Store pops it
VmCopyToStorePops ==
    /\ Exec("CopyToStore")
    /\ mem_index' = mem_index - 1
    /\ memory' = [memory EXCEPT ![Arg1 + 1] = stack[mem_index]]
    /\ UNCHANGED <<heap, stack>>
    /\ Advance(2)

VmCopyToStore ==
    /\ Exec("CopyToStore")
    /\ memory' = [memory EXCEPT ![Arg1 + 1] = stack[mem_index]]
    /\ UNCHANGED <<heap, stack, mem_index>>
    /\ Advance(2)

VmFastStore ==
    /\ Exec("FastStore")
    /\ memory' = [memory EXCEPT ![Arg1 + 1] = memory[Arg2 + 1]]
    /\ UNCHANGED <<heap, stack, mem_index>>
    /\ Advance(3)

VmNot ==
    /\ Exec("Not")
    /\ ReplaceTop(Bool(~is_true(Peek(0))))
    /\ Advance(1)

VmDublicate ==
    /\ Exec("Dublicate")
    /\ stack' = [stack EXCEPT ![mem_index + 1] = stack[mem_index]]
    /\ mem_index' = mem_index + 1
    /\ UNCHANGED <<heap, memory>>
    /\ Advance(1)

VmAnd ==
    /\ Exec("And")
    /\ BinaryPush(Bool(is_true(Peek(0)) /\ is_true(Peek(1))))
    /\ Advance(1)

VmOr ==
    /\ Exec("Or")
    /\ BinaryPush(Bool(is_true(Peek(0)) \/ is_true(Peek(1))))
    /\ Advance(1)

VmEqual ==
    /\ Exec("Equal")
    /\ BinaryPush(Bool(PrimEq(Peek(1), Peek(0))))
    /\ Advance(1)

VmNotEqual ==
    /\ Exec("NotEqual")
    /\ BinaryPush(Bool(~PrimEq(Peek(1), Peek(0))))
    /\ Advance(1)

\* an operand that is no Number makes the ordering false
OrderingFalseOnMismatch(left, right, holds) ==
    Bool(left.k = "Number" /\ right.k = "Number" /\ holds)

\* the four ordering opcodes: a Bool for two Numbers, else empty_primative
Ordering(left, right, holds) ==
    IF left.k = "Number" /\ right.k = "Number" THEN Bool(holds) ELSE Empty

VmGreaterThan ==
    /\ Exec("GreaterThan")
    /\ BinaryPush(Ordering(Peek(1), Peek(0),
                           F64Lt(from_bits(Peek(0).v), from_bits(Peek(1).v))))
    /\ Advance(1)

VmGreaterEqualThan ==
    /\ Exec("GreaterEqualThan")
    /\ BinaryPush(Ordering(Peek(1), Peek(0),
                           F64Le(from_bits(Peek(0).v), from_bits(Peek(1).v))))
    /\ Advance(1)

VmLessThan ==
    /\ Exec("LessThan")
    /\ BinaryPush(Ordering(Peek(1), Peek(0),
                           F64Lt(from_bits(Peek(1).v), from_bits(Peek(0).v))))
    /\ Advance(1)

VmLessEqualThan ==
    /\ Exec("LessEqualThan")
    /\ BinaryPush(Ordering(Peek(1), Peek(0),
                           F64Le(from_bits(Peek(1).v), from_bits(Peek(0).v))))
    /\ Advance(1)

\* the result pushed on top of the arguments, none of them popped
NativeOkKeepsArgs(word) ==
    /\ mem_index' = mem_index + 1
    /\ stack' = [stack EXCEPT ![mem_index + 1] = word]

\* Ok(result): mem_index -= total_args; stack[mem_index] = result; mem_index += 1
NativeOk(word) ==
    /\ mem_index' = mem_index - Arg2 + 1
    /\ stack' = [stack EXCEPT ![mem_index - Arg2 + 1] = word]

\* the arguments of the failed call popped before the return
NativeErrPopsArgs(error) ==
    /\ vm_pc' = "err"
    /\ vm_error' = error
    /\ mem_index' = mem_index - Arg2
    /\ UNCHANGED <<heap, encVars, modVars, synVars, runVars, opcodes, opcode_size, index, opcode,
                   stack, memory, opcode_index>>

\* the address of the failed call written to options.opcode_index
NativeErrSavesIndex(error) ==
    /\ vm_pc' = "err"
    /\ vm_error' = error
    /\ opcode_index' = index
    /\ UNCHANGED <<heap, encVars, modVars, synVars, runVars, opcodes, opcode_size, index, opcode,
                   mem_index, stack, memory>>

\* Err((error, _, _)): println!("{:?}", error); return Err(error)
NativeErr(error) ==
    /\ vm_pc' = "err"
    /\ vm_error' = error
    /\ UNCHANGED <<heap, encVars, modVars, synVars, runVars, opcodes, opcode_size, index, opcode,
                   mem_index, stack, memory, opcode_index>>

\* func(&stack, mem_index, total_args) returns Ok(VmObject) or Err(message)
VmNativeCall ==
    /\ Exec("NativeCall")
    /\ IF deref(heap, memory[Arg1 + 1]).k = "FuncNativeCall"
       THEN \E r \in {[ok |-> TRUE, word |-> EmptyWord, error |-> ""],
                       [ok |-> TRUE, word |-> <<16368, 0, 0, 0>>, error |-> ""],
                       [ok |-> FALSE, word |-> EmptyWord, error |-> "native error"]} :
              IF r.ok
              THEN IF Arg2 > mem_index \/ mem_index - Arg2 >= StackSize
                   THEN /\ vm_pc' = "panic"
                        /\ UNCHANGED <<heap, encVars, modVars, synVars, runVars, opcodes, opcode_size, index,
                                       opcode, mem_index, stack, memory,
                                       opcode_index, vm_error>>
                   ELSE /\ NativeOk(r.word)
                        /\ UNCHANGED <<heap, memory>>
                        /\ Advance(3)
              ELSE NativeErr(r.error)
       ELSE /\ UNCHANGED <<heap, mem_index, stack, memory>>
            /\ Advance(1)

IncrementResult(value, one) ==
    IF value.k = "Number" THEN Numbers(F64Add(from_bits(value.v), one)) ELSE {Empty}

VmIncrement ==
    /\ Exec("Increment")
    /\ \E p \in IncrementResult(Peek(0), Fin(0, 256)) : ReplaceTop(p)
    /\ Advance(1)

VmDecrement ==
    /\ Exec("Decrement")
    /\ \E p \in IncrementResult(Peek(0), Fin(1, 256)) : ReplaceTop(p)
    /\ Advance(1)

\* a list in the order the values were pushed
PoppedListPushOrder(n) == [i \in 1..n |-> Peek(n - i)]

\* for _ in 0..total_item { list.push(pop!(mem_index, stack)); }
PoppedList(n) == [i \in 1..n |-> Peek(i - 1)]

VmInitList ==
    /\ Exec("InitList")
    /\ stack' = [stack EXCEPT ![mem_index - Arg1 + 1] = From(heap, List(PoppedList(Arg1)))]
    /\ heap' = HeapAfter(heap, List(PoppedList(Arg1)))
    /\ mem_index' = mem_index - Arg1 + 1
    /\ memory' = memory
    /\ Advance(2)

\* a HashMap<String, Rc<BramaPrimative>>: a set of <<key, value>>, one per key
DictInsert(dict, key, value) == {e \in dict : e[1] # key} \cup {<<key, value>>}

\* a dict in which the pair nearest the top of the stack is inserted last
RECURSIVE PoppedDictTopLast(_, _)
PoppedDictTopLast(n, done) ==
    IF done = n THEN {}
    ELSE DictInsert(PoppedDictTopLast(n, done + 1),
                    get_text(Peek(2 * done + 1)),
                    Peek(2 * done))

\* for _ in 0..total_item { value = pop; key = pop; dict.insert(key.get_text(), value); }
RECURSIVE PoppedDict(_, _)
PoppedDict(n, done) ==
    IF done = n THEN {}
    ELSE DictInsert(PoppedDict(n, done + 1),
                    get_text(Peek(2 * (n - 1 - done) + 1)),
                    Peek(2 * (n - 1 - done)))

VmInitDict ==
    /\ Exec("InitDict")
    /\ stack' = [stack EXCEPT ![mem_index - 2 * Arg1 + 1] =
                    From(heap, Dict(PoppedDict(Arg1, 0)))]
    /\ heap' = HeapAfter(heap, Dict(PoppedDict(Arg1, 0)))
    /\ mem_index' = mem_index - 2 * Arg1 + 1
    /\ memory' = memory
    /\ Advance(2)

\* the same two bytes read high byte first
LocationBigEndian == (Arg1 * 256 + Arg2) % 65536

\* ((opcodes[index + 2] as u16 * 256) + opcodes[index + 1] as u16) as usize
Location == (Arg2 * 256 + Arg1) % 65536

VmCompare ==
    /\ Exec("Compare")
    /\ mem_index' = mem_index - 1
    /\ UNCHANGED <<heap, stack, memory>>
    /\ IF CompareStatus(Peek(0)) THEN Advance(2 + 1) ELSE Advance(Location + 1)

\* a Jump after which the loop does not add its one
VmJumpNoStep ==
    /\ Exec("Jump")
    /\ UNCHANGED <<heap, mem_index, stack, memory>>
    /\ Advance(Location)

VmJump ==
    /\ Exec("Jump")
    /\ UNCHANGED <<heap, mem_index, stack, memory>>
    /\ Advance(Location + 1)

\* the Err a GetItem returns, "" when it returns none
GetItemError(object, indexer) ==
    CASE object.k = "List" /\ indexer.k # "Number" -> "Indexer must be number"
      [] object.k = "Dict" /\ indexer.k # "Text" -> "Indexer must be string"
      [] OTHER -> ""

\* an index below zero that is past the end instead of clamped to 0
GetItemResultSigned(object, indexer) ==
    CASE object.k = "List" ->
            LET i == as_usize(from_bits(indexer.v))
            IN  IF /\ ~Saturates(from_bits(indexer.v))
                   /\ ~(from_bits(indexer.v).s = 1 /\ from_bits(indexer.v).q # 0)
                   /\ i < Len(object.v)
                THEN object.v[i + 1] ELSE Empty
      [] object.k = "Dict" ->
            IF \E e \in object.v : e[1] = indexer.v
            THEN (CHOOSE e \in object.v : e[1] = indexer.v)[2] ELSE Empty
      [] OTHER -> Empty

\* (*value).get(*number as u64 as usize) and (*value).get(&text)
GetItemResult(object, indexer) ==
    CASE object.k = "List" ->
            LET i == as_usize(from_bits(indexer.v))
            IN  IF ~Saturates(from_bits(indexer.v)) /\ i < Len(object.v)
                THEN object.v[i + 1] ELSE Empty
      [] object.k = "Dict" ->
            IF \E e \in object.v : e[1] = indexer.v
            THEN (CHOOSE e \in object.v : e[1] = indexer.v)[2] ELSE Empty
      [] OTHER -> Empty

VmGetItem ==
    /\ Exec("GetItem")
    /\ IF GetItemError(Peek(1), Peek(0)) # ""
       THEN /\ vm_pc' = "err"
            /\ vm_error' = GetItemError(Peek(1), Peek(0))
            /\ UNCHANGED <<heap, encVars, modVars, synVars, runVars, opcodes, opcode_size, index, opcode,
                           mem_index, stack, memory, opcode_index>>
       ELSE /\ BinaryPush(GetItemResult(Peek(1), Peek(0)))
            /\ Advance(1)

VmNone ==
    /\ Exec("None")
    /\ UNCHANGED <<heap, mem_index, stack, memory>>
    /\ Advance(1)

NextVM ==
    \/ VmDecode
    \/ VmExit
    \/ VmPanic
    \/ VmNone
    \/ VmAddition
    \/ VmSubraction
    \/ VmMultiply
    \/ VmDivision
    \/ VmAnd
    \/ VmOr
    \/ VmEqual
    \/ VmNotEqual
    \/ VmGreaterThan
    \/ VmLessThan
    \/ VmGreaterEqualThan
    \/ VmLessEqualThan
    \/ VmNot
    \/ VmIncrement
    \/ VmDecrement
    \/ VmLoad
    \/ VmStore
    \/ VmCopyToStore
    \/ VmFastStore
    \/ VmDublicate
    \/ VmNativeCall
    \/ VmInitList
    \/ VmInitDict
    \/ VmGetItem
    \/ VmCompare
    \/ VmJump

SpecVM == InitVM /\ [][NextVM]_vars

(***************************************************************************)
(* SpecOp: the last instructions of a run.  The loop is about to fetch     *)
(* with three bytes of opcodes left, and the stack holds what Loads of     *)
(* two of the constants have left on it, in any order and to any height.   *)
(***************************************************************************)
InitOp ==
    /\ EncIdle
    /\ ModIdle
    /\ SynIdle
    /\ heap = Heap0
    /\ memory = Memory0
    /\ stack \in [1..StackSize -> {Memory0[2], Memory0[8]}]
    /\ mem_index \in 0..StackSize
    /\ opcode_size = MaxCode
    /\ opcode_index = 0
    /\ index = MaxCode - 3
    /\ opcodes = <<>>
    /\ opcode = ""
    /\ vm_pc = "fetch"
    /\ vm_error = ""
    /\ program = <<>>
    /\ runs = 1

SpecOp == InitOp /\ [][NextVM]_vars

(***************************************************************************)
(* SpecRun: run_vm called on the same options more than once.  The opcodes *)
(* are known in full from the start, so that a later call runs the same    *)
(* program: two Loads and an instruction, a store before a native call, a  *)
(* Load before the instructions that need one entry, a jump.               *)
(***************************************************************************)
\* the calls of run_vm on one options
MaxRuns == 2

InitRun ==
    /\ EncIdle
    /\ ModIdle
    /\ SynIdle
    /\ heap = Heap0
    /\ memory = Memory0
    /\ stack = [i \in 1..StackSize |-> EmptyWord]
    /\ program \in
          {<<16, a, 16, b, op>> : a \in {1, 11}, b \in {1, 7}, op \in 0..(Len(OpCodes) - 1)}
             \cup {<<19, MemSize - 1, 1, 21, 9, argc>> : argc \in {0, 1}}
             \cup {<<16, 1, op, MemSize - 1, 0, 0>> : op \in {17, 18, 22, 23, 25, 26}}
             \cup {<<16, 7, 16, 1, 23, 1>>, <<22, 0>>, <<26, 1, 0, 0>>}
    /\ opcodes = program
    /\ opcode_size = Len(program)
    /\ opcode_index = 0
    /\ index = 0
    /\ mem_index = 0
    /\ opcode = ""
    /\ vm_pc = "fetch"
    /\ vm_error = ""
    /\ runs = 1

\* a later call that starts at address 0 whatever the call before left
VmRunAgainFromZero ==
    /\ vm_pc \in {"ok", "err"}
    /\ runs < MaxRuns
    /\ runs' = runs + 1
    /\ index' = 0
    /\ opcodes' = program
    /\ mem_index' = 0
    /\ opcode' = ""
    /\ vm_error' = ""
    /\ vm_pc' = "fetch"
    /\ UNCHANGED <<heap, encVars, modVars, synVars, program, opcode_size, stack, memory,
                   opcode_index>>

\* run_vm is called again on the options it returned from:
\* let mut index = options.opcode_index; let mut mem_index: usize = 0;
VmRunAgain ==
    /\ vm_pc \in {"ok", "err"}
    /\ runs < MaxRuns
    /\ runs' = runs + 1
    /\ index' = opcode_index
    /\ opcodes' = Drop(program, opcode_index)
    /\ mem_index' = 0
    /\ opcode' = ""
    /\ vm_error' = ""
    /\ vm_pc' = "fetch"
    /\ UNCHANGED <<heap, encVars, modVars, synVars, program, opcode_size, stack, memory,
                   opcode_index>>

NextRun == NextVM \/ VmRunAgain

SpecRun == InitRun /\ [][NextRun]_vars

(***************************************************************************)
(* SpecMod: get_modules resolves the Load statements of a program.         *)
(*                                                                         *)
(* find_load_type and load_module call each other; frames is their call    *)
(* stack, one action per match arm and per way out of load_module.  The    *)
(* files define no function, so find_function_definition_type finds none.  *)
(***************************************************************************)
\* BramaAstType: Load(path), Block(statements), and any other statement
Load(m) == [t |-> "Load", path |-> m, blocks |-> <<>>]
Block(b) == [t |-> "Block", path |-> "", blocks |-> b]
Other == [t |-> "Other", path |-> "", blocks |-> <<>>]

\* BramaAstType::FunctionDefination { name, arguments, body }
FunctionDefination(body) == [t |-> "FunctionDefination", path |-> "", blocks |-> <<body>>]

\* what File::open and the two parsers make of a path
Missing == [t |-> "Missing", path |-> "", blocks |-> <<>>]
Unparsable == [t |-> "Unparsable", path |-> "", blocks |-> <<>>]

Mods == {"m1", "m2", "m3"}
Loads == {Load(m) : m \in Mods}

\* the files on disk and the programs compiled
FileAsts ==
    {Other} \cup Loads \cup {Block(<<l, st>>) : l \in Loads, st \in Loads \cup {Other}}
MainAsts ==
    {Load("m1"), Other,
     Block(<<Load("m1"), Load("m2")>>),
     Block(<<Load("m1"), Load("m1")>>),
     Block(<<Block(<<Load("m2")>>), Load("m3")>>),
     FunctionDefination(Block(<<Load("m1"), Other>>)),
     Block(<<Load("m2"), FunctionDefination(Block(<<Load("m1"), Other>>))>>)}

\* the nested load_module calls after which the recursion is cut off: one
\* more than the modules there are, so only a re-entered module reaches it
MaxNest == 4

\* KaramelCompilerContext::has_module / add_module: the registry by path
has_module(reg, m) == m \in reg
add_module(reg, m) == reg \cup {m}

FindFrame(ast, upper) ==
    [fn |-> "find_load_type", ast |-> ast, i |-> 0, name |-> "", upper |-> upper]
LoadFrame(ast, m, storage) ==
    [fn |-> "load_module", ast |-> ast, i |-> 0, name |-> m, upper |-> storage]

Top == frames[Len(frames)]
Pop(n) == SubSeq(frames, 1, Len(frames) - n)
Nest == Cardinality({k \in DOMAIN frames : frames[k].fn = "load_module"})

InitMod ==
    /\ EncIdle
    /\ VmIdle
    /\ SynIdle
    /\ heap = <<>>
    /\ files \in {[m \in Mods |-> IF m = "m3" THEN c ELSE IF m = "m2" THEN b ELSE a] :
                    a \in FileAsts \cup {Missing}, b \in FileAsts \cup {Unparsable},
                    c \in {Other, Missing, Unparsable, Load("m1"), Load("m3")}}
    /\ main_ast \in MainAsts
    /\ registry = {}
    /\ storages = <<[parent_location |-> 0]>>
    /\ modules = <<>>
    /\ frames = <<>>
    /\ result = "idle"
    /\ mod_error = ""

\* get_modules: find_load_type(main_ast, options, &mut modules, 0)
GetModules ==
    /\ result = "idle"
    /\ result' = "running"
    /\ frames' = <<FindFrame(main_ast, 0)>>
    /\ UNCHANGED <<heap, encVars, vmVars, synVars, runVars, files, main_ast, registry, storages,
                   modules, mod_error>>

\* find_load_type is at the head of its match
InFind(t) ==
    /\ result = "running"
    /\ frames # <<>>
    /\ Top.fn = "find_load_type"
    /\ Top.ast.t = t

\* a resolver that loads whatever a Load names, registered or not
AlwaysLoad(m) == m \in Mods

\* if !options.has_module(&module_name)
ShouldLoad(m) == ~has_module(registry, m)

\* Load of a module the context has: nothing to do, Ok(())
FindLoadKnown ==
    /\ InFind("Load")
    /\ ~ShouldLoad(Top.ast.path)
    /\ frames' = Pop(1)
    /\ UNCHANGED <<heap, encVars, vmVars, synVars, runVars, files, main_ast, registry, storages,
                   modules, result, mod_error>>

\* the module that failed to load registered and listed before the Err
FailRegistered(message) ==
    /\ result' = "err"
    /\ mod_error' = message
    /\ frames' = <<>>
    /\ registry' = add_module(registry, Top.ast.path)
    /\ modules' = Append(modules, [name |-> Top.ast.path, storage_index |-> Top.upper])
    /\ UNCHANGED <<heap, encVars, vmVars, synVars, runVars, files, main_ast, storages>>

\* an Err leaves every caller through its `?`, and get_modules returns it
Fail(message) ==
    /\ result' = "err"
    /\ mod_error' = message
    /\ frames' = <<>>
    /\ UNCHANGED <<heap, encVars, vmVars, synVars, runVars, files, main_ast, registry, storages,
                   modules>>

\* load_module: File::open fails
LoadModuleOpenFails ==
    /\ InFind("Load")
    /\ ShouldLoad(Top.ast.path)
    /\ files[Top.ast.path] = Missing
    /\ Fail("Dosya okuma hatasi oldu")

\* the storage pushed before the source is parsed, and left behind by the Err
LoadModuleParseFailsAfterPush ==
    /\ InFind("Load")
    /\ ShouldLoad(Top.ast.path)
    /\ files[Top.ast.path] = Unparsable
    /\ result' = "err"
    /\ mod_error' = "generate_error_message"
    /\ frames' = <<>>
    /\ storages' = Append(storages, [parent_location |-> Top.upper])
    /\ UNCHANGED <<heap, encVars, vmVars, synVars, runVars, files, main_ast, registry, modules>>

\* load_module: parser.parse() or syntax.parse() fails
LoadModuleParseFails ==
    /\ InFind("Load")
    /\ ShouldLoad(Top.ast.path)
    /\ files[Top.ast.path] = Unparsable
    /\ Fail("generate_error_message")

\* the storage of every module made a child of storage 0
LoadModuleEnterUnderRoot ==
    /\ InFind("Load")
    /\ ShouldLoad(Top.ast.path)
    /\ files[Top.ast.path] \notin {Missing, Unparsable}
    /\ Nest < MaxNest
    /\ storages' = Append(storages, [parent_location |-> 0])
    /\ frames' = frames \o <<LoadFrame(files[Top.ast.path], Top.ast.path, Len(storages)),
                             FindFrame(files[Top.ast.path], Len(storages))>>
    /\ UNCHANGED <<heap, encVars, vmVars, synVars, runVars, files, main_ast, registry, modules,
                   result, mod_error>>

\* load_module: the file parses; a storage is pushed for the module and
\* find_load_type is called on its main_ast
LoadModuleEnter ==
    /\ InFind("Load")
    /\ ShouldLoad(Top.ast.path)
    /\ files[Top.ast.path] \notin {Missing, Unparsable}
    /\ Nest < MaxNest
    /\ storages' = Append(storages, [parent_location |-> Top.upper])
    /\ frames' = frames \o <<LoadFrame(files[Top.ast.path], Top.ast.path, Len(storages)),
                             FindFrame(files[Top.ast.path], Len(storages))>>
    /\ UNCHANGED <<heap, encVars, vmVars, synVars, runVars, files, main_ast, registry, modules,
                   result, mod_error>>

\* the recursion goes on until the call stack is exhausted
StackOverflow ==
    /\ InFind("Load")
    /\ ShouldLoad(Top.ast.path)
    /\ files[Top.ast.path] \notin {Missing, Unparsable}
    /\ ~(Nest < MaxNest)
    /\ result' = "overflow"
    /\ UNCHANGED <<heap, encVars, vmVars, synVars, runVars, files, main_ast, registry, storages,
                   modules, frames, mod_error>>

\* the module put at the head of the list: modules.insert(0, module)
LoadModuleReturnFirst ==
    /\ result = "running"
    /\ frames # <<>>
    /\ Top.fn = "load_module"
    /\ registry' = add_module(registry, Top.name)
    /\ modules' = <<[name |-> Top.name, storage_index |-> Top.upper]>> \o modules
    /\ frames' = Pop(2)
    /\ UNCHANGED <<heap, encVars, vmVars, synVars, runVars, files, main_ast, storages, result,
                   mod_error>>

\* load_module returns Ok(module) to the Load arm of find_load_type:
\* options.add_module(module.clone()); modules.push(module.clone());
LoadModuleReturn ==
    /\ result = "running"
    /\ frames # <<>>
    /\ Top.fn = "load_module"
    /\ registry' = add_module(registry, Top.name)
    /\ modules' = Append(modules, [name |-> Top.name, storage_index |-> Top.upper])
    /\ frames' = Pop(2)
    /\ UNCHANGED <<heap, encVars, vmVars, synVars, runVars, files, main_ast, storages, result,
                   mod_error>>

\* for block in blocks { find_load_type(block.clone(), ...)?; }
FindBlockNext ==
    /\ InFind("Block")
    /\ Top.i < Len(Top.ast.blocks)
    /\ frames' = [frames EXCEPT ![Len(frames)].i = @ + 1]
                    \o <<FindFrame(Top.ast.blocks[Top.i + 1], Top.upper)>>
    /\ UNCHANGED <<heap, encVars, vmVars, synVars, runVars, files, main_ast, registry, storages,
                   modules, result, mod_error>>

\* the loop over the blocks is over: Ok(())
FindBlockReturn ==
    /\ InFind("Block")
    /\ Top.i = Len(Top.ast.blocks)
    /\ frames' = Pop(1)
    /\ UNCHANGED <<heap, encVars, vmVars, synVars, runVars, files, main_ast, registry, storages,
                   modules, result, mod_error>>

\* _ => (): Ok(())
FindOther ==
    /\ result = "running"
    /\ frames # <<>>
    /\ Top.fn = "find_load_type"
    /\ Top.ast.t \notin {"Load", "Block"}
    /\ frames' = Pop(1)
    /\ UNCHANGED <<heap, encVars, vmVars, synVars, runVars, files, main_ast, registry, storages,
                   modules, result, mod_error>>

\* get_modules: Ok(()) => Ok(modules)
GetModulesReturn ==
    /\ result = "running"
    /\ frames = <<>>
    /\ result' = "ok"
    /\ UNCHANGED <<heap, encVars, vmVars, synVars, runVars, files, main_ast, registry, storages,
                   modules, frames, mod_error>>

NextMod ==
    \/ GetModules
    \/ FindLoadKnown
    \/ LoadModuleOpenFails
    \/ LoadModuleParseFails
    \/ LoadModuleEnter
    \/ StackOverflow
    \/ LoadModuleReturn
    \/ FindBlockNext
    \/ FindBlockReturn
    \/ FindOther
    \/ GetModulesReturn

SpecMod == InitMod /\ [][NextMod]_vars

(***************************************************************************)
(* SpecSyn: the front end.  OperatorParser::parse is called on a source    *)
(* text at the tokinizer's index until the text ends or a call fails; an   *)
(* entry of the KEYWORDS table is read and handed to to_operator.          *)
(***************************************************************************)
\* the longest source text
MaxText == 2

\* match (ch, ch_next) { ... }
OperatorPair(ch, ch_next) ==
    CASE ch = "!" /\ ch_next = "=" -> "NotEqual"
      [] ch = "/" /\ ch_next = "=" -> "AssignDivision"
      [] ch = "/" /\ ch_next = "/" -> "CommentLine"
      [] ch = "/" /\ ch_next = "*" -> "CommentMultilineStart"
      [] ch = "+" /\ ch_next = "+" -> "Increment"
      [] ch = "+" /\ ch_next = "=" -> "AssignAddition"
      [] ch = "-" /\ ch_next = "-" -> "Deccrement"
      [] ch = "-" /\ ch_next = "=" -> "AssignSubtraction"
      [] ch = "<" /\ ch_next = "=" -> "LessEqualThan"
      [] ch = ">" /\ ch_next = "=" -> "GreaterEqualThan"
      [] ch = "*" /\ ch_next = "=" -> "AssignMultiplication"
      [] ch = "*" /\ ch_next = "/" -> "CommentMultilineEnd"
      [] ch = "=" /\ ch_next = "=" -> "Equal"
      [] OTHER -> "None"

\* match ch { ... }
OperatorSingle(ch) ==
    CASE ch = "=" -> "Assign"
      [] ch = "*" -> "Multiplication"
      [] ch = "<" -> "LessThan"
      [] ch = ">" -> "GreaterThan"
      [] ch = "-" -> "Subtraction"
      [] ch = "+" -> "Addition"
      [] ch = "/" -> "Division"
      [] ch = "?" -> "QuestionMark"
      [] ch = ":" -> "ColonMark"
      [] ch = "(" -> "LeftParentheses"
      [] ch = ")" -> "RightParentheses"
      [] ch = "[" -> "SquareBracketStart"
      [] ch = "]" -> "SquareBracketEnd"
      [] ch = "{" -> "CurveBracketStart"
      [] ch = "}" -> "CurveBracketEnd"
      [] ch = "," -> "Comma"
      [] ch = ";" -> "Semicolon"
      [] ch = "." -> "Dot"
      [] ch = "!" -> "Not"
      [] OTHER -> "None"

\* to_operator without the arm of Not
to_operatorNoNot(k) ==
    IF k \in {"And", "Or", "Modulo", "Equal", "NotEqual", "GreaterThan",
              "GreaterEqualThan", "LessThan", "LessEqualThan"}
    THEN k ELSE "None"

\* BramaKeywordType::to_operator
to_operator(k) ==
    IF k \in {"And", "Or", "Modulo", "Not", "Equal", "NotEqual", "GreaterThan",
              "GreaterEqualThan", "LessThan", "LessEqualThan"}
    THEN k ELSE "None"

\* KEYWORDS, in the order of the table; the Turkish letters are written
\* with the Latin letters they derive from
KEYWORDS ==
    <<<<"true", "True">>, <<"false", "False">>, <<"use", "Use">>,
      <<"until", "Until">>, <<"loop", "Loop">>, <<"if", "If">>,
      <<"else", "Else">>, <<"and", "And">>, <<"or", "Or">>,
      <<"empty", "Empty">>, <<"not", "Not">>, <<"equal", "Equal">>,
      <<"notequal", "NotEqual">>, <<"greater", "GreaterThan">>,
      <<"greaterequal", "GreaterEqualThan">>, <<"less", "LessThan">>,
      <<"lessequal", "LessEqualThan">>,
      <<"dogru", "True">>, <<"yanlis", "False">>, <<"kullan", "Use">>,
      <<"kadar", "Until">>, <<"dongu", "Loop">>, <<"eger", "If">>,
      <<"yada", "Else">>, <<"ve", "And">>, <<"veya", "Or">>,
      <<"yok", "Empty">>, <<"mod", "Modulo">>, <<"esittir", "Equal">>,
      <<"esitdegildir", "NotEqual">>, <<"buyuktur", "GreaterThan">>,
      <<"buyukesittir", "GreaterEqualThan">>, <<"kucuktur", "LessThan">>,
      <<"kucukesittir", "LessEqualThan">>, <<"degil", "Not">>>>

InitSyn ==
    /\ EncIdle
    /\ VmIdle
    /\ ModIdle
    /\ heap = <<>>
    /\ data \in UNION {[1..n ->
            {"!", "=", "/", "*", "+", "-", "<", ">", "?", ":", "(", ")", "[",
             "]", "{", "}", ",", ";", ".", "%", "\r", "a"}] : n \in 0..MaxText}
    /\ tk_index = 0
    /\ tokens = <<>>
    /\ lex_result = "idle"
    /\ kw_word = ""
    /\ keyword = "None"
    /\ operator = "None"
    /\ syn_tokens = <<>>
    /\ syn_pc = "statement"
    /\ syn_fn = [name |-> "", arguments |-> <<>>, body |-> <<>>]
    /\ syn_ast = <<>>
    /\ syn_result = [status |-> "None", error |-> "", at |-> 0, ast |-> <<>>]
    /\ class_index = -1
    /\ class_entry = [name |-> ""]
    /\ class_count = 0

\* a parse that moves on by one character whatever it has matched
OperatorParseOneChar ==
    /\ lex_result \in {"idle", "ok"}
    /\ tk_index < Len(data)
    /\ LET ch == data[tk_index + 1]
           ch_next == IF tk_index + 1 < Len(data) THEN data[tk_index + 2] ELSE "NUL"
           start == tk_index
           pair == OperatorPair(ch, ch_next)
           operator_type == IF pair # "None" THEN pair ELSE OperatorSingle(ch)
       IN /\ tk_index' = tk_index + 1
          /\ IF ch = "\r"
             THEN lex_result' = "ok" /\ tokens' = tokens
             ELSE IF operator_type = "None"
             THEN lex_result' = "Char not valid" /\ tokens' = tokens
             ELSE /\ lex_result' = "ok"
                  /\ tokens' = Append(tokens, [start |-> start, operator |-> operator_type])
    /\ UNCHANGED <<heap, encVars, vmVars, modVars, runVars, parseVars, classVars, data, kw_word, keyword, operator>>

\* OperatorParser::parse on the tokinizer: get_char and get_next_char give
\* the characters at index and index + 1 (none past the end of the text),
\* increase_index moves on by one, add_token appends
OperatorParse ==
    /\ lex_result \in {"idle", "ok"}
    /\ tk_index < Len(data)
    /\ LET ch == data[tk_index + 1]
           ch_next == IF tk_index + 1 < Len(data) THEN data[tk_index + 2] ELSE "NUL"
           start == tk_index
           pair == OperatorPair(ch, ch_next)
           operator_type == IF pair # "None" THEN pair ELSE OperatorSingle(ch)
       IN /\ tk_index' = IF pair # "None" THEN tk_index + 2 ELSE tk_index + 1
          /\ IF ch = "\r"
             THEN lex_result' = "ok" /\ tokens' = tokens
             ELSE IF operator_type = "None"
             THEN lex_result' = "Char not valid" /\ tokens' = tokens
             ELSE /\ lex_result' = "ok"
                  /\ tokens' = Append(tokens, [start |-> start, operator |-> operator_type])
    /\ UNCHANGED <<heap, encVars, vmVars, modVars, runVars, parseVars, classVars, data, kw_word, keyword, operator>>

\* one entry of KEYWORDS and the operator of its keyword
KeywordEntry ==
    /\ data = <<>>
    /\ kw_word = ""
    /\ syn_tokens = <<>>
    /\ syn_pc = "statement"
    /\ \E i \in DOMAIN KEYWORDS :
        /\ kw_word' = KEYWORDS[i][1]
        /\ keyword' = KEYWORDS[i][2]
        /\ operator' = to_operator(KEYWORDS[i][2])
    /\ UNCHANGED <<heap, encVars, vmVars, modVars, runVars, parseVars, classVars, data, tk_index, tokens, lex_result>>

(***************************************************************************)
(* SyntaxParser::parse on a token list, as far as function definitions go. *)
(* The tokens are read one at a time as the parser asks for them.  A       *)
(* statement of a body or of the top level is one token: "assign" for an   *)
(* assignment, "return" for a bare return, "return e" for a return with an *)
(* expression; "dedent" is the end of an indented body.                    *)
(***************************************************************************)
\* the longest token list
MaxTokens == 7

Symbols == {"test", "a"}

Toks ==
    Symbols \cup {"fon", "(", ")", ",", ":", "1", "assign", "return", "return e", "dedent"}

\* the node of a statement
Statement(tok) ==
    CASE tok = "assign" -> "Assignment"
      [] tok = "return" -> "Return(None)"
      [] tok = "return e" -> "Return(Symbol)"

\* a body that gets a Return(None) whatever it ends with
AlwaysReturn(body) == Append(body, "Return(None)")

\* the body of a function definition ends with a Return
ImplicitReturn(body) ==
    IF body[Len(body)] \in {"Return(None)", "Return(Symbol)"}
    THEN body
    ELSE Append(body, "Return(None)")

\* a header that wants its parentheses
HeaderStepParentheses(pc, tok) ==
    CASE pc = "name" ->
            IF tok \in Symbols THEN [pc |-> "after_name", error |-> ""]
            ELSE [pc |-> "done", error |-> "FunctionNameNotDefined"]
      [] pc = "after_name" ->
            IF tok = "(" THEN [pc |-> "first_argument", error |-> ""]
            ELSE [pc |-> "done", error |-> "ColonMarkMissing"]
      [] pc = "first_argument" ->
            IF tok = ")" THEN [pc |-> "colon", error |-> ""]
            ELSE IF tok \in Symbols THEN [pc |-> "after_argument", error |-> ""]
            ELSE [pc |-> "done", error |-> "ArgumentMustBeText"]
      [] pc = "argument" ->
            IF tok \in Symbols THEN [pc |-> "after_argument", error |-> ""]
            ELSE [pc |-> "done", error |-> "ArgumentMustBeText"]
      [] pc = "after_argument" ->
            IF tok = "," THEN [pc |-> "argument", error |-> ""]
            ELSE IF tok = ")" THEN [pc |-> "colon", error |-> ""]
            ELSE [pc |-> "done", error |-> "RightParanthesesMissing"]
      [] pc = "colon" ->
            IF tok = ":" THEN [pc |-> "body", error |-> ""]
            ELSE [pc |-> "done", error |-> "ColonMarkMissing"]

\* one token of the header of a function definition: where the parser goes
\* next, or the error it returns
HeaderStep(pc, tok) ==
    CASE pc = "name" ->
            IF tok \in Symbols THEN [pc |-> "after_name", error |-> ""]
            ELSE [pc |-> "done", error |-> "FunctionNameNotDefined"]
      [] pc = "after_name" ->
            IF tok = "(" THEN [pc |-> "first_argument", error |-> ""]
            ELSE IF tok = ":" THEN [pc |-> "body", error |-> ""]
            ELSE [pc |-> "done", error |-> "ColonMarkMissing"]
      [] pc = "first_argument" ->
            IF tok = ")" THEN [pc |-> "colon", error |-> ""]
            ELSE IF tok \in Symbols THEN [pc |-> "after_argument", error |-> ""]
            ELSE [pc |-> "done", error |-> "ArgumentMustBeText"]
      [] pc = "argument" ->
            IF tok \in Symbols THEN [pc |-> "after_argument", error |-> ""]
            ELSE [pc |-> "done", error |-> "ArgumentMustBeText"]
      [] pc = "after_argument" ->
            IF tok = "," THEN [pc |-> "argument", error |-> ""]
            ELSE IF tok = ")" THEN [pc |-> "colon", error |-> ""]
            ELSE [pc |-> "done", error |-> "RightParanthesesMissing"]
      [] pc = "colon" ->
            IF tok = ":" THEN [pc |-> "body", error |-> ""]
            ELSE [pc |-> "done", error |-> "ColonMarkMissing"]

SynErr(error) ==
    [status |-> "Err", error |-> error, at |-> Len(syn_tokens), ast |-> <<>>]

Node(t, fn) ==
    [t |-> t, name |-> fn.name, arguments |-> fn.arguments, body |-> fn.body]

\* a return at the top level that is taken for a statement like any other
ParseStatementReturnAllowed ==
    /\ data = <<>>
    /\ kw_word = ""
    /\ syn_pc = "statement"
    /\ \/ /\ syn_pc' = "done"
          /\ syn_result' = [status |-> "Ok", error |-> "", at |-> 0, ast |-> syn_ast]
          /\ UNCHANGED <<syn_tokens, syn_fn, syn_ast>>
       \/ /\ Len(syn_tokens) < MaxTokens
          /\ \E tok \in {"assign", "return", "return e", "fon"} :
              /\ syn_tokens' = Append(syn_tokens, tok)
              /\ IF tok = "fon"
                 THEN /\ syn_pc' = "name"
                      /\ syn_fn' = [name |-> "", arguments |-> <<>>, body |-> <<>>]
                      /\ UNCHANGED <<syn_ast, syn_result>>
                 ELSE /\ syn_ast' = Append(syn_ast,
                            Node(Statement(tok), [name |-> "", arguments |-> <<>>, body |-> <<>>]))
                      /\ UNCHANGED <<syn_pc, syn_fn, syn_result>>
    /\ UNCHANGED <<heap, encVars, vmVars, modVars, runVars, lexVars>>

\* a statement of the top level, or the end of the token list
ParseStatement ==
    /\ data = <<>>
    /\ kw_word = ""
    /\ syn_pc = "statement"
    /\ \/ /\ syn_pc' = "done"
          /\ syn_result' = [status |-> "Ok", error |-> "", at |-> 0, ast |-> syn_ast]
          /\ UNCHANGED <<syn_tokens, syn_fn, syn_ast>>
       \/ /\ Len(syn_tokens) < MaxTokens
          /\ \E tok \in {"assign", "return", "return e", "fon"} :
              /\ syn_tokens' = Append(syn_tokens, tok)
              /\ IF tok = "fon"
                 THEN /\ syn_pc' = "name"
                      /\ syn_fn' = [name |-> "", arguments |-> <<>>, body |-> <<>>]
                      /\ UNCHANGED <<syn_ast, syn_result>>
                 ELSE IF tok \in {"return", "return e"}
                 THEN /\ syn_pc' = "done"
                      /\ syn_result' = SynErr("ReturnMustBeUsedInFunction")
                      /\ UNCHANGED <<syn_fn, syn_ast>>
                 ELSE /\ syn_ast' = Append(syn_ast,
                            Node(Statement(tok), [name |-> "", arguments |-> <<>>, body |-> <<>>]))
                      /\ UNCHANGED <<syn_pc, syn_fn, syn_result>>
    /\ UNCHANGED <<heap, encVars, vmVars, modVars, runVars, lexVars>>

\* one token of the header of a function definition
ParseHeader ==
    /\ data = <<>>
    /\ kw_word = ""
    /\ syn_pc \notin {"statement", "body", "done"}
    /\ Len(syn_tokens) < MaxTokens
    /\ \E tok \in Toks :
        LET step == HeaderStep(syn_pc, tok)
        IN /\ syn_tokens' = Append(syn_tokens, tok)
           /\ syn_pc' = step.pc
           /\ IF step.error # ""
              THEN syn_result' = SynErr(step.error) /\ syn_fn' = syn_fn
              ELSE /\ syn_result' = syn_result
                   /\ syn_fn' =
                        IF syn_pc = "name" THEN [syn_fn EXCEPT !.name = tok]
                        ELSE IF tok \in Symbols
                        THEN [syn_fn EXCEPT !.arguments = Append(@, tok)]
                        ELSE syn_fn
    /\ UNCHANGED <<syn_ast, heap, encVars, vmVars, modVars, runVars, lexVars>>

\* a statement of the body, or its end: at a dedent or with the token list
ParseBody ==
    /\ data = <<>>
    /\ kw_word = ""
    /\ syn_pc = "body"
    /\ \/ /\ Len(syn_tokens) < MaxTokens
          /\ \E tok \in {"assign", "return", "return e"} :
              /\ syn_tokens' = Append(syn_tokens, tok)
              /\ syn_fn' = [syn_fn EXCEPT !.body = Append(@, Statement(tok))]
              /\ UNCHANGED <<syn_pc, syn_ast, syn_result>>
       \/ \E last \in BOOLEAN :
          /\ last \/ Len(syn_tokens) < MaxTokens
          /\ syn_tokens' = IF last THEN syn_tokens ELSE Append(syn_tokens, "dedent")
          /\ syn_fn' = syn_fn
          /\ IF syn_fn.body = <<>>
             THEN /\ syn_pc' = "done"
                  /\ syn_result' = SynErr("FunctionConditionBodyNotFound")
                  /\ syn_ast' = syn_ast
             ELSE LET ast == Append(syn_ast, Node("FunctionDefination",
                                [syn_fn EXCEPT !.body = ImplicitReturn(@)]))
                  IN /\ syn_ast' = ast
                     /\ syn_pc' = IF last THEN "done" ELSE "statement"
                     /\ syn_result' = IF last THEN [status |-> "Ok", error |-> "", at |-> 0, ast |-> ast] ELSE syn_result
    /\ UNCHANGED <<heap, encVars, vmVars, modVars, runVars, lexVars>>

(***************************************************************************)
(* The class registry.  number, text and list build the descriptors of the *)
(* three real classes; they are named here after their primitive kinds.    *)
(***************************************************************************)
\* get_empty_class
get_empty_class == [name |-> "__NO__CLASS__"]

\* a table whose last push is missing
PRIMATIVE_CLASSES_Short ==
    <<[name |-> "Number"], [name |-> "Text"], [name |-> "List"],
      get_empty_class, get_empty_class, get_empty_class, get_empty_class,
      get_empty_class, get_empty_class>>

\* PRIMATIVE_CLASSES: the pushes of the initialiser, in their order
PRIMATIVE_CLASSES ==
    <<[name |-> "Number"], [name |-> "Text"], [name |-> "List"],
      get_empty_class, get_empty_class, get_empty_class, get_empty_class,
      get_empty_class, get_empty_class, get_empty_class>>

\* one lookup in the registry: indices start at 0
ClassEntry ==
    /\ data = <<>>
    /\ syn_tokens = <<>>
    /\ syn_pc = "statement"
    /\ class_index = -1
    /\ \E i \in 0..(Len(PRIMATIVE_CLASSES) - 1) :
        /\ class_index' = i
        /\ class_entry' = PRIMATIVE_CLASSES[i + 1]
        /\ class_count' = Len(PRIMATIVE_CLASSES)
    /\ UNCHANGED <<heap, encVars, vmVars, modVars, runVars, parseVars, data, tk_index,
                   tokens, lex_result, kw_word, keyword, operator>>

NextSyn ==
    \/ OperatorParse
    \/ KeywordEntry
    \/ ClassEntry
    \/ ParseStatement
    \/ ParseHeader
    \/ ParseBody

SpecSyn == InitSyn /\ [][NextSyn]_vars

(***************************************************************************)
(* C1: Encoding round-trip: for every primitive p, every NaN bit pattern   *)
(* included, VmObject::convert(p).deref() is value-equal to p.             *)
(***************************************************************************)
C1_RoundTrip == enc_pc = "decoded" => PrimEq(out, prim)

(***************************************************************************)
(* C2: run_vm returns an error only from a NativeCall whose native         *)
(* function returned an error: whenever the loop has returned Err, the     *)
(* instruction it was executing is a NativeCall.                           *)
(***************************************************************************)
C2_ErrorOnlyFromNativeCall == vm_pc = "err" => opcode = "NativeCall"

(***************************************************************************)
(* C3: a Division whose right operand is the Number 0 (of either sign)     *)
(* completes and pushes Empty, whatever the left operand is.               *)
(***************************************************************************)
C3_DivisionByZero ==
    [][(/\ vm_pc = "exec" /\ opcode = "Division" /\ mem_index >= 2
        /\ Peek(0).k = "Number" /\ IsZero(Peek(0).v))
       => (vm_pc' = "fetch" /\ mem_index' = mem_index - 1 /\ Peek(0)' = Empty)]_vars

(***************************************************************************)
(* C6: an instruction that completes and is no taken jump (no Jump, no     *)
(* Compare whose condition the handler found false) leaves pc advanced by  *)
(* the total width of its opcode: 1 plus the number of its operand bytes.  *)
(***************************************************************************)
C6_PcAdvancesByWidth ==
    [][(/\ vm_pc = "exec" /\ vm_pc' = "fetch"
        /\ opcode # "Jump"
        /\ ~(opcode = "Compare" /\ ~CompareStatus(Peek(0))))
       => index' = index + 1 + Operands(opcode)]_vars

(***************************************************************************)
(* C7: Compare falls through (pc + 3) exactly when the popped value is     *)
(* truthy under the truthiness rule, List, Dict and function values being  *)
(* truthy; stated for the offsets that do not themselves lead to pc + 3.   *)
(***************************************************************************)
C7_CompareTruthiness ==
    [][(Exec("Compare") /\ Len(opcodes) = 3 /\ Location # 2)
       => (/\ mem_index' = mem_index - 1
           /\ (index' = index + 3) <=> is_true(Peek(0)))]_vars

(***************************************************************************)
(* C8: a Jump at p, and a Compare at p whose popped value the handler      *)
(* finds false, continue at p + 1 + (opcodes[p+1] + 256 * opcodes[p+2]);   *)
(* a Compare whose popped value it finds true continues at p + 3.          *)
(***************************************************************************)
C8_JumpTarget ==
    [][/\ (Exec("Jump") \/ (Exec("Compare") /\ ~CompareStatus(Peek(0))))
            => index' = index + 1 + (opcodes[2] + 256 * opcodes[3])
       /\ (Exec("Compare") /\ CompareStatus(Peek(0))) => index' = index + 3]_vars

\* a falsy Compare whose offset has a high byte has been taken
C8_Witness == vm_pc = "fetch" /\ opcode = "Compare" /\ index >= 256

(***************************************************************************)
(* The result C9 names for an arithmetic opcode on a pair of operands.     *)
(***************************************************************************)
ArithmeticOps == {"Addition", "Subraction", "Multiply"}

NumericResult(op, x, y) ==
    CASE op = "Addition" -> F64Add(x, y)
      [] op = "Subraction" -> F64Sub(x, y)
      [] OTHER -> F64Mul(x, y)

\* floor(n) repetitions, none when n < 0 (and none for NaN)
Repetitions(x) == IF x.c = "fin" /\ x.s = 0 THEN x.q \div 256 ELSE 0

NamedResult(op, left, right) ==
    IF left.k = "Number" /\ right.k = "Number"
    THEN Numbers(NumericResult(op, from_bits(left.v), from_bits(right.v)))
    ELSE IF op = "Addition" /\ left.k = "Text" /\ right.k = "Text"
    THEN {Text(left.v \o right.v)}
    ELSE IF op = "Multiply" /\ left.k = "Text" /\ right.k = "Number"
    THEN {Text(Repeat(left.v, Repetitions(from_bits(right.v))))}
    ELSE {Empty}

\* the numeric results the model can hold
Holds(op, left, right) == NamedResult(op, left, right) # {}

\* the instruction completes: right then left popped, the named result pushed
PushesNamedResult ==
    /\ vm_pc' = "fetch"
    /\ mem_index' = mem_index - 1
    /\ Peek(0)' \in NamedResult(opcode, Peek(1), Peek(0))

RECURSIVE ValueEqual(_, _)
ValueEqual(l, r) ==
    /\ l.k = r.k
    /\ CASE l.k = "Number" -> (is_nan(l.v) /\ is_nan(r.v)) \/ F64Eq(l.v, r.v)
         [] l.k = "List" -> /\ Len(l.v) = Len(r.v)
                            /\ \A i \in 1..Len(l.v) : ValueEqual(l.v[i], r.v[i])
         [] OTHER -> l.v = r.v

RECURSIVE Imports(_)
Imports(ast) ==
    CASE ast.t = "Load" -> {ast.path}
      [] ast.t = "Block" -> UNION {Imports(ast.blocks[k]) : k \in DOMAIN ast.blocks}
      [] OTHER -> {}

\* the modules that importing every module of S (transitively) reaches
RECURSIVE Closure(_, _)
Closure(S, n) ==
    IF n = 0 THEN S
    ELSE Closure(S \cup UNION {Imports(files[m]) : m \in S}, n - 1)

ImportedBy(ast) == Closure(Imports(ast), Cardinality(Mods))
Cyclic == \E m \in ImportedBy(main_ast) : m \in ImportedBy(files[m])
ModuleNames == {modules[k].name : k \in DOMAIN modules}

(***************************************************************************)
(* C4: an import cycle is detected: no module is entered by load_module    *)
(* while an earlier load_module of it is still on the call stack, and the  *)
(* recursion never runs away.                                              *)
(***************************************************************************)
C4_CyclesRejected ==
    /\ \A i, j \in DOMAIN frames :
          (/\ frames[i].fn = "load_module" /\ frames[j].fn = "load_module"
           /\ frames[i].name = frames[j].name) => i = j
    /\ result # "overflow"

(***************************************************************************)
(* C5: for an acyclic import graph no module is ever twice in the result   *)
(* list, and when get_modules returns Ok the list holds each module the    *)
(* program reaches exactly once, the registry holds the same modules, and  *)
(* one storage was allocated per module.                                   *)
(***************************************************************************)
C5_ModuleIdempotence ==
    (result # "idle" /\ ~Cyclic) =>
        /\ \A i, j \in DOMAIN modules : modules[i].name = modules[j].name => i = j
        /\ \A i, j \in DOMAIN modules :
              modules[i].storage_index = modules[j].storage_index => i = j
        /\ result = "ok" =>
              /\ ModuleNames = ImportedBy(main_ast)
              /\ registry = ModuleNames
              /\ Len(storages) = 1 + Len(modules)

\* a diamond, m1 and m2 both importing m3, has been resolved
C5_Witness ==
    /\ result = "ok"
    /\ main_ast = Block(<<Load("m1"), Load("m2")>>)
    /\ "m3" \in Imports(files["m1"])
    /\ "m3" \in Imports(files["m2"])
    /\ Len(modules) = 3

\* ---------------------------------------------------------------------
\* C11  Equality of VmObject words

\* what Invariant E-2 takes a == b to be: the referents of two pointer-boxed
\* words compared as primitives, the bits of any other two words
StructuralEq(h, a, b) ==
    IF IsPointerWord(a) /\ IsPointerWord(b) /\ ~Dangling(h, a) /\ ~Dangling(h, b)
    THEN PrimEq(deref(h, a), deref(h, b))
    ELSE a = b

\* C11: obj == other is the comparison of the bits when obj is a singleton
\* or a Number, and the comparison of the referents when obj and other are
\* pointer-boxed: two words of different allocations that hold equal Text
\* (or equal List) compare equal.
C11_ObjectEquality ==
    enc_pc = "compared" =>
        (same <=> IF IsHeapKind(prim) THEN StructuralEq(heap, obj, other) ELSE obj = other)

\* ---------------------------------------------------------------------
\* C12  Strong counts across convert and deref

\* C12: convert leaves the strong count of a heap primitive at the one
\* count it moved into the word; every handle deref returned and not yet
\* dropped adds one to it, the word's own count is never used up, so with
\* all handles dropped the count is the one after convert and the word
\* still decodes to its primitive.
C12_StrongCounts ==
    (prim # NoPrim /\ IsHeapKind(prim)) =>
        /\ ~Dangling(heap, obj)
        /\ heap[IndexOf(heap, WordAnd(obj, POINTER_MASK))].strong = 1 + held
        /\ deref(heap, obj) = prim

\* two handles were taken from the word of a heap primitive and both dropped
C12_Witness ==
    /\ enc_pc = "idle"
    /\ prim # NoPrim
    /\ IsHeapKind(prim)
    /\ held = 0
    /\ heap[IndexOf(heap, WordAnd(obj, POINTER_MASK))].strong = 1

\* ---------------------------------------------------------------------
\* C13  Slot lifetime rule

\* the memory slots whose word points to allocation i
SlotsOf(mem, i) ==
    {s \in DOMAIN mem : IsPointerWord(mem[s]) /\ IndexOf(heap, WordAnd(mem[s], POINTER_MASK)) = i}

\* C13: when Store, CopyToStore or FastStore writes a slot, the strong
\* count of every allocation follows the slots that point to it: one more
\* for the slot a pointer-boxed word was copied into, one less for the slot
\* whose pointer-boxed word was overwritten.
C13_SlotLifetime ==
    [][(vm_pc = "exec" /\ vm_pc' = "fetch" /\ opcode \in {"Store", "CopyToStore", "FastStore"}) =>
        \A i \in DOMAIN heap :
            heap'[i].strong = heap[i].strong + Cardinality(SlotsOf(memory', i))
                                             - Cardinality(SlotsOf(memory, i))]_vars

\* ---------------------------------------------------------------------
\* C14  NativeCall whose native returns Ok(result)

\* C14: a NativeCall with argc arguments whose native returns Ok(result)
\* pops the argc arguments and pushes the result: the stack pointer becomes
\* sp - argc + 1, the result is the entry at sp - argc, and the native,
\* which was given the stack to read, left every entry below sp - argc and
\* every memory slot as it was.
C14_NativeCallOk ==
    [][(vm_pc = "exec" /\ opcode = "NativeCall" /\ vm_pc' = "fetch" /\ index' = index + 3) =>
        /\ mem_index' = mem_index - Arg2 + 1
        /\ stack'[mem_index'] \in {EmptyWord, <<16368, 0, 0, 0>>}
        /\ \A j \in DOMAIN stack : j < mem_index' => stack'[j] = stack[j]
        /\ memory' = memory]_vars

\* a native called with the two entries 2.5, 2.5 has returned Ok(1.0)
C14_Witness ==
    /\ vm_pc = "fetch"
    /\ opcode = "NativeCall"
    /\ mem_index = 1
    /\ stack[1] = <<16368, 0, 0, 0>>
    /\ stack[2] = <<16388, 0, 0, 0>>

\* ---------------------------------------------------------------------
\* C15  A native function that returns an error

\* C15: when the native of a NativeCall returns an error, run_vm returns
\* with that message at that instruction: the arguments stay on the stack,
\* no result is pushed, the memory written before stays as written, and
\* nothing is executed afterwards.
C15_NativeError ==
    [][/\ (vm_pc = "exec" /\ opcode = "NativeCall" /\ vm_pc' = "err") =>
            /\ deref(heap, memory[Arg1 + 1]).k = "FuncNativeCall"
            /\ vm_error' = "native error"
            /\ UNCHANGED <<index, mem_index, stack, memory, heap>>
       /\ vm_pc = "err" => UNCHANGED vmVars]_vars

\* the native of the second instruction failed after FastStore had written
\* a variable slot; its argument is still on the stack
C15_Witness ==
    /\ vm_pc = "err"
    /\ opcode = "NativeCall"
    /\ vm_error = "native error"
    /\ memory # Memory0

\* ---------------------------------------------------------------------
\* C16  Program order of native calls

\* the instruction at index is a NativeCall whose slot holds a native
NativeRuns ==
    /\ vm_pc = "exec"
    /\ opcode = "NativeCall"
    /\ ~Traps
    /\ deref(heap, memory[Arg1 + 1]).k = "FuncNativeCall"

\* C16: natives run one at a time in the order the program counter
\* reaches their NativeCall instructions: the call made at index has
\* returned (its result is on the stack, or run_vm has stopped there) when
\* the next instruction is decoded, an instruction is decoded only at the
\* program counter and between two handlers, and the program counter never
\* goes back to a call it has passed.
C16_NativeOrder ==
    [][/\ NativeRuns =>
            \/ vm_pc' \in {"err", "panic"} /\ index' = index
            \/ /\ vm_pc' = "fetch"
               /\ index' = index + 3
               /\ stack'[mem_index'] \in {EmptyWord, <<16368, 0, 0, 0>>}
       /\ vm_pc' = "exec" => (vm_pc = "fetch" /\ index' = index /\ stack' = stack)
       /\ index' >= index]_vars

\* two natives have run, one after the other; each pushed 1.0
C16_Witness ==
    /\ vm_pc = "fetch"
    /\ opcode = "NativeCall"
    /\ index = opcode_index + 6
    /\ mem_index = 2
    /\ stack[1] = <<16368, 0, 0, 0>>
    /\ stack[2] = <<16368, 0, 0, 0>>

\* ---------------------------------------------------------------------
\* C17  The end of the loop

\* C17: run_vm returns Ok exactly when the program counter is at or past
\* opcodes.len() and no error was returned before: it then writes the
\* program counter to options.opcode_index, and it decodes no instruction
\* at an address at or past opcodes.len().
C17_LoopExit ==
    [][/\ (vm_pc' = "ok" /\ vm_pc # "ok") =>
            /\ vm_pc = "fetch"
            /\ index >= opcode_size
            /\ vm_error = ""
            /\ index' = index
            /\ opcode_index' = index
       /\ (vm_pc = "fetch" /\ index >= opcode_size) => vm_pc' = "ok"
       /\ (vm_pc' = "exec" /\ vm_pc # "exec") => index < opcode_size]_vars

\* a run that began at address 0 has returned Ok with the program counter
\* past the end of the code
C17_Witness ==
    /\ vm_pc = "ok"
    /\ opcode # ""
    /\ index > opcode_size
    /\ opcode_index = index

\* ---------------------------------------------------------------------
\* C18  Memory length stability

\* C18: no instruction changes the number of memory slots of the storage
\* or the number of entries of its operand stack; an instruction only
\* overwrites slots and entries that exist.
C18_LengthStable ==
    [][/\ DOMAIN memory' = DOMAIN memory
       /\ DOMAIN stack' = DOMAIN stack]_vars

\* instructions have written a memory slot and stack entries
C18_Witness ==
    /\ vm_pc = "fetch"
    /\ memory # Memory0
    /\ \E j \in DOMAIN stack : stack[j] # EmptyWord
    /\ Len(memory) = MemSize
    /\ Len(stack) = StackSize

\* ---------------------------------------------------------------------
\* C19  The order of the module list

\* C19: for an acyclic import graph the list get_modules builds is in
\* topological order at every moment: each module in it comes after every
\* module its file imports, and the modules registered are the modules
\* listed, so a module is registered and pushed only when the loading of
\* all its imports is over.
C19_TopologicalOrder ==
    ~Cyclic =>
        /\ registry = ModuleNames
        /\ \A k \in DOMAIN modules :
              \A m \in Imports(files[modules[k].name]) :
                  \E j \in 1..(k - 1) : modules[j].name = m

\* a chain was resolved: the program imports m1, m1 imports m2, m2 imports m3
C19_Witness ==
    /\ result = "ok"
    /\ "m2" \in Imports(files["m1"])
    /\ "m3" \in Imports(files["m2"])
    /\ Len(modules) = 3
    /\ modules[1].name = "m3"
    /\ modules[3].name = "m1"

\* ---------------------------------------------------------------------
\* C20  The storage of a module

\* the storage of the scope whose find_load_type made the load_module call
\* of frame k: that of the nearest load_module below it, storage 0 if none
ImportingStorage(k) ==
    LET below == {j \in 1..(k - 1) : frames[j].fn = "load_module"}
    IN IF below = {} THEN 0
       ELSE frames[CHOOSE j \in below : \A i \in below : i <= j].upper

\* the parent of storage s
ParentOf(s) == storages[s + 1].parent_location

\* C20: every load_module call is given the storage appended last, which no
\* other module has, and the parent of that storage is the storage of the
\* importing scope: storage 0 when the root program imports the module, the
\* importing module's storage_index when a module does (an importing module
\* is on the call stack or in the list until get_modules returns an error).
C20_ModuleStorage ==
    /\ \A k \in DOMAIN frames :
          frames[k].fn = "load_module" =>
              /\ frames[k].upper \in 1..(Len(storages) - 1)
              /\ ParentOf(frames[k].upper) = ImportingStorage(k)
              /\ \A j \in DOMAIN modules : modules[j].storage_index # frames[k].upper
              /\ \A j \in DOMAIN frames :
                    (frames[j].fn = "load_module" /\ frames[j].upper = frames[k].upper) => j = k
    /\ \A k \in DOMAIN modules :
          LET s == modules[k].storage_index
          IN /\ s \in 1..(Len(storages) - 1)
             /\ \A j \in DOMAIN modules : modules[j].storage_index = s => j = k
             /\ IF ParentOf(s) = 0
                THEN modules[k].name \in Imports(main_ast)
                ELSE \/ result = "err"
                     \/ \E j \in DOMAIN modules :
                          /\ modules[j].storage_index = ParentOf(s)
                          /\ modules[k].name \in Imports(files[modules[j].name])
                     \/ \E j \in DOMAIN frames :
                          /\ frames[j].fn = "load_module"
                          /\ frames[j].upper = ParentOf(s)
                          /\ modules[k].name \in Imports(files[frames[j].name])

\* the program imported m1 and m1 imported m2: m1 has storage 1 under
\* storage 0, m2 has storage 2 under storage 1
C20_Witness ==
    /\ result = "ok"
    /\ Len(modules) >= 2
    /\ modules[1].name = "m2"
    /\ modules[1].storage_index = 2
    /\ ParentOf(2) = 1
    /\ modules[2].name = "m1"
    /\ modules[2].storage_index = 1
    /\ ParentOf(1) = 0

\* ---------------------------------------------------------------------
\* C21  A module that cannot be opened or parsed

\* the modules whose load_module call is on the call stack
Loading == {frames[k].name : k \in {j \in DOMAIN frames : frames[j].fn = "load_module"}}

\* C21: when a module cannot be opened or parsed get_modules returns Err at
\* once: the registry and the list stay as they were, without the failing
\* module and without the modules that were importing it; nothing is
\* processed after the Err; and get_modules returns Ok only when every
\* module the program reaches could be opened and parsed.
C21_LoadFailureHalts ==
    [][/\ (result = "running" /\ result' = "err") =>
            /\ files[Top.ast.path] \in {Missing, Unparsable}
            /\ registry' = registry
            /\ modules' = modules
            /\ storages' = storages
            /\ frames' = <<>>
            /\ \A m \in Loading \cup {Top.ast.path} :
                  m \notin registry' /\ m \notin {modules'[k].name : k \in DOMAIN modules'}
       /\ result = "err" => UNCHANGED modVars
       /\ result' = "ok" =>
            \A m \in ImportedBy(main_ast) : files[m] \notin {Missing, Unparsable}]_vars

\* m1 was being loaded for the program when its import m2 failed, after
\* another module had been loaded and listed
C21_Witness ==
    /\ result = "err"
    /\ modules # <<>>
    /\ "m1" \notin registry
    /\ "m2" \notin registry
    /\ "m2" \in Imports(files["m1"])
    /\ files["m2"] = Unparsable

\* ---------------------------------------------------------------------
\* C25  The Jump that closes a loop

\* C25: the Jump that closes a loop body continues at the loop top, an
\* address below the Jump's own: whatever offset the compiler patched into
\* it, a Jump that comes after the instructions of a body the run has gone
\* through continues at an address of that body, not past itself.
C25_LoopJump ==
    [][(Exec("Jump") /\ index > opcode_index) =>
            (index' < index /\ index' >= opcode_index)]_vars

\* ---------------------------------------------------------------------
\* C26  Frame of the slot instructions

\* the memory slots other than slot number n (counted from 0) are unchanged
OtherSlotsKept(n) == \A s \in DOMAIN memory : s # n + 1 => memory'[s] = memory[s]

\* C26: Load pushes memory[slot] and writes no memory slot; Store pops the
\* top into memory[slot] and writes no other slot; CopyToStore writes the
\* top into memory[slot] and leaves the stack pointer and the stack as they
\* were; FastStore copies memory[src] to memory[dst] and leaves the stack
\* pointer, the stack and every other slot as they were.
C26_SlotFrames ==
    [][/\ Exec("Load") =>
            /\ mem_index' = mem_index + 1
            /\ stack'[mem_index'] = memory[opcodes[2] + 1]
            /\ \A j \in DOMAIN stack : j # mem_index' => stack'[j] = stack[j]
            /\ memory' = memory
       /\ Exec("Store") =>
            /\ mem_index' = mem_index - 1
            /\ memory'[opcodes[2] + 1] = stack[mem_index]
            /\ OtherSlotsKept(opcodes[2])
       /\ Exec("CopyToStore") =>
            /\ memory'[opcodes[2] + 1] = stack[mem_index]
            /\ OtherSlotsKept(opcodes[2])
            /\ mem_index' = mem_index
            /\ stack' = stack
       /\ Exec("FastStore") =>
            /\ memory'[opcodes[2] + 1] = memory[opcodes[3] + 1]
            /\ OtherSlotsKept(opcodes[2])
            /\ mem_index' = mem_index
            /\ stack' = stack]_vars

\* CopyToStore has copied the 2.5 on top of the stack into the variable slot
C26_Witness ==
    /\ vm_pc = "fetch"
    /\ opcode = "CopyToStore"
    /\ mem_index = 1
    /\ stack[1] = <<16388, 0, 0, 0>>
    /\ memory[MemSize] = <<16388, 0, 0, 0>>

\* ---------------------------------------------------------------------
\* C27  Every Load of the tree is resolved

\* the paths of the Load nodes of a tree, at any depth and under any node
RECURSIVE AllLoads(_)
AllLoads(ast) ==
    IF ast.t = "Load" THEN {ast.path}
    ELSE UNION {AllLoads(ast.blocks[k]) : k \in DOMAIN ast.blocks}

\* C27: when get_modules returns Ok, the path of every Load node of the
\* program, wherever the node is in the tree (in a function body too), and
\* of every Load node of a registered module is in the registry.
C27_EveryLoadResolved ==
    result = "ok" =>
        /\ AllLoads(main_ast) \subseteq registry
        /\ \A m \in registry : AllLoads(files[m]) \subseteq registry

\* ---------------------------------------------------------------------
\* C28  The result of the comparison opcodes

ComparisonOps ==
    {"Equal", "NotEqual", "GreaterThan", "LessThan", "GreaterEqualThan", "LessEqualThan"}

BoolWords == {convert(Bool(TRUE), AddrOf(0)), convert(Bool(FALSE), AddrOf(0))}

\* C28: each of the six comparison opcodes pops two values and pushes a
\* Bool, whatever the kinds of the operands: the stack pointer goes down by
\* one and the new top is true or false.
C28_ComparisonPushesBool ==
    [][(vm_pc = "exec" /\ opcode \in ComparisonOps /\ ~Traps) =>
            /\ mem_index' = mem_index - 1
            /\ stack'[mem_index'] \in BoolWords]_vars

\* C28 as amended: each of the six pops two values and pushes one; Equal
\* and NotEqual push a Bool for operands of every kind, the four ordering
\* opcodes push a Bool when both operands are Numbers and Empty otherwise.
C28_ComparisonResult ==
    [][(vm_pc = "exec" /\ opcode \in ComparisonOps /\ ~Traps) =>
            /\ mem_index' = mem_index - 1
            /\ IF opcode \in {"Equal", "NotEqual"}
                  \/ (Peek(0).k = "Number" /\ Peek(1).k = "Number")
               THEN stack'[mem_index'] \in BoolWords
               ELSE stack'[mem_index'] = EmptyWord]_vars

\* LessThan has compared the number 0.0 with a Text and pushed Empty
C28_Witness ==
    /\ vm_pc = "fetch"
    /\ opcode = "LessThan"
    /\ mem_index = 1
    /\ stack[1] = EmptyWord
    /\ stack[2] = Memory0[8]

(***************************************************************************)
(* C29: OperatorParser::parse emits an Operator token for every operator   *)
(* the language lists (+ - * / %, += -= *= /=, == != < <= > >=, [ ], ( ),  *)
(* { } and '.'): a call that starts at one of them adds one token and does *)
(* not fail with 'Char not valid'.                                         *)
(***************************************************************************)
ListedOperatorChars ==
    {"+", "-", "*", "/", "%", "<", ">", "[", "]", "(", ")", "{", "}", "."}

\* the call about to run starts at an operator of the list
AtListedOperator ==
    /\ tk_index < Len(data)
    /\ \/ data[tk_index + 1] \in ListedOperatorChars
       \/ /\ tk_index + 1 < Len(data)
          /\ data[tk_index + 1] \in {"=", "!"}
          /\ data[tk_index + 2] = "="

C29_ListedOperatorsLexed ==
    [][(AtListedOperator /\ tk_index' # tk_index)
        => (/\ lex_result' = "ok"
            /\ Len(tokens') = Len(tokens) + 1
            /\ tokens'[Len(tokens')].start = tk_index)]_vars

(***************************************************************************)
(* C30: in the KEYWORDS table an English word and its Turkish alias have   *)
(* the same keyword kind, no word has two kinds, and to_operator gives     *)
(* both aliases of a logical or comparison keyword the same operator and   *)
(* every other keyword None.  As amended: the keyword of mod, Modulo, is   *)
(* given the operator Modulo as well.                                      *)
(***************************************************************************)
AliasPairs ==
    {<<"true", "dogru">>, <<"false", "yanlis">>, <<"use", "kullan">>,
     <<"until", "kadar">>, <<"loop", "dongu">>, <<"if", "eger">>,
     <<"else", "yada">>, <<"and", "ve">>, <<"or", "veya">>,
     <<"empty", "yok">>, <<"not", "degil">>, <<"equal", "esittir">>,
     <<"notequal", "esitdegildir">>, <<"greater", "buyuktur">>,
     <<"greaterequal", "buyukesittir">>, <<"less", "kucuktur">>,
     <<"lessequal", "kucukesittir">>}

LogicalOrComparison ==
    {"And", "Or", "Not", "Equal", "NotEqual", "GreaterThan",
     "GreaterEqualThan", "LessThan", "LessEqualThan"}

\* the entry read agrees with every entry of its word and of its alias
AliasesAgree ==
    /\ \A i \in DOMAIN KEYWORDS :
        KEYWORDS[i][1] = kw_word => KEYWORDS[i][2] = keyword
    /\ \A p \in AliasPairs : \A i \in DOMAIN KEYWORDS :
        (kw_word \in {p[1], p[2]} /\ KEYWORDS[i][1] \in {p[1], p[2]})
            => (KEYWORDS[i][2] = keyword /\ to_operator(KEYWORDS[i][2]) = operator)
    /\ kw_word = "mod" \/ \E p \in AliasPairs : kw_word \in {p[1], p[2]}

C30_KeywordAliases ==
    kw_word # "" =>
        /\ AliasesAgree
        /\ keyword \in LogicalOrComparison => operator = keyword
        /\ keyword \notin LogicalOrComparison => operator = "None"

C30_KeywordAliasesModulo ==
    kw_word # "" =>
        /\ AliasesAgree
        /\ keyword \in LogicalOrComparison \cup {"Modulo"} => operator = keyword
        /\ keyword \notin LogicalOrComparison \cup {"Modulo"} => operator = "None"

C30_Witness ==
    /\ kw_word = "degil"
    /\ keyword = "Not"
    /\ operator = "Not"

(***************************************************************************)
(* C22: implicit return.  When a function definition is closed, its body   *)
(* is the statements of the source in their order, a bare return being     *)
(* Return(None); if the source body does not end with a return, exactly    *)
(* one Return(None) follows them, and if it does, nothing follows them.    *)
(***************************************************************************)
\* the statements read since the ':' of the header
BodyTokens ==
    LET colon == CHOOSE i \in DOMAIN syn_tokens :
                    /\ syn_tokens[i] = ":"
                    /\ \A j \in DOMAIN syn_tokens : j > i => syn_tokens[j] # ":"
    IN SubSeq(syn_tokens, colon + 1, Len(syn_tokens))

ReturnToks == {"return", "return e"}

C23_ReturnOutsideFunction ==
    [][(/\ syn_pc = "statement"
        /\ Len(syn_tokens') = Len(syn_tokens) + 1
        /\ syn_tokens'[Len(syn_tokens')] \in ReturnToks)
        => (/\ syn_pc' = "done"
            /\ syn_result' = [status |-> "Err", error |-> "ReturnMustBeUsedInFunction",
                              at |-> Len(syn_tokens), ast |-> <<>>])]_vars

C23_Witness ==
    /\ syn_pc = "done"
    /\ syn_tokens = <<"assign", "return e">>
    /\ syn_result.status = "Err"
    /\ syn_result.error = "ReturnMustBeUsedInFunction"
    /\ syn_result.at = 1

(***************************************************************************)
(* C24: a malformed function definition is rejected where its header first *)
(* goes wrong: no name gives FunctionNameNotDefined, a parameter that is   *)
(* not a symbol ArgumentMustBeText, an unclosed parameter list             *)
(* RightParanthesesMissing, no ':' ColonMarkMissing, no body               *)
(* FunctionConditionBodyNotFound; a header without parentheses is accepted *)
(* and gives what one with empty parentheses gives.                        *)
(***************************************************************************)
Rejected(error) ==
    /\ syn_pc = "done"
    /\ syn_result = [status |-> "Err", error |-> error,
                     at |-> Len(syn_tokens) - 1, ast |-> <<>>]

\* the last tokens read are these
EndsWith(toks) ==
    /\ Len(syn_tokens) >= Len(toks)
    /\ SubSeq(syn_tokens, Len(syn_tokens) - Len(toks) + 1, Len(syn_tokens)) = toks

C24_MalformedHeader ==
    /\ \A x \in Toks \ Symbols :
        EndsWith(<<"fon", x>>) => Rejected("FunctionNameNotDefined")
    /\ \A x \in Toks \ (Symbols \cup {")"}) :
        EndsWith(<<"(", x>>) => Rejected("ArgumentMustBeText")
    /\ \A x \in Toks \ Symbols :
        EndsWith(<<",", x>>) => Rejected("ArgumentMustBeText")
    /\ \A p \in {"(", ","}, s \in Symbols, x \in Toks \ {",", ")"} :
        EndsWith(<<p, s, x>>) => Rejected("RightParanthesesMissing")
    /\ \A x \in Toks \ {":"} :
        EndsWith(<<")", x>>) => Rejected("ColonMarkMissing")
    /\ \A s \in Symbols, x \in Toks \ {":", "("} :
        EndsWith(<<"fon", s, x>>) => Rejected("ColonMarkMissing")
    /\ EndsWith(<<":", "dedent">>) => Rejected("FunctionConditionBodyNotFound")
    /\ (/\ syn_pc = "done"
        /\ \/ EndsWith(<<")", ":">>)
           \/ \E s \in Symbols : EndsWith(<<"fon", s, ":">>))
        => syn_result = [status |-> "Err", error |-> "FunctionConditionBodyNotFound",
                         at |-> Len(syn_tokens), ast |-> <<>>]
    /\ \A s \in Symbols :
        (EndsWith(<<"fon", s, ":">>) \/ EndsWith(<<"fon", s, "(", ")", ":">>))
            => (syn_pc = "done" \/
                (/\ syn_pc = "body"
                 /\ syn_result.status = "None"
                 /\ syn_fn = [name |-> s, arguments |-> <<>>, body |-> <<>>]))

C24_Witness ==
    /\ syn_tokens = <<"fon", "test", "(", "1">>
    /\ syn_pc = "done"
    /\ syn_result.error = "ArgumentMustBeText"

(***************************************************************************)
(* C31: PRIMATIVE_CLASSES has exactly ten entries; indices 0, 1 and 2 are  *)
(* the Number, Text and List descriptors in that order and each of the     *)
(* indices 3 to 9 is a sentinel class named __NO__CLASS__.                 *)
(***************************************************************************)
C31_TenClasses ==
    class_index # -1 =>
        /\ class_count = 10
        /\ class_index \in 0..9
        /\ class_index = 0 => class_entry.name = "Number"
        /\ class_index = 1 => class_entry.name = "Text"
        /\ class_index = 2 => class_entry.name = "List"
        /\ class_index \in 3..9 => class_entry.name = "__NO__CLASS__"

C31_Witness ==
    /\ class_index = 9
    /\ class_count = 10
    /\ class_entry.name = "__NO__CLASS__"

(***************************************************************************)
(* C32: a GetItem that returns no error pops the indexer and the object    *)
(* and pushes one value.  For a List and a Number index it is the element  *)
(* at the index truncated toward zero and clamped to 0 from below (a       *)
(* negative or NaN index selects element 0), or Empty past the end; for a  *)
(* Dict and a Text key the mapped value, or Empty when the key is absent;  *)
(* for an object that is neither a List nor a Dict it is Empty.            *)
(***************************************************************************)
\* the position a Number selects: -1 stands for one past every end
ListPosition(x) ==
    IF x.c = "nan" \/ x.s = 1 THEN 0
    ELSE IF x.c = "inf" THEN -1
    ELSE x.q \div 256

C33_InitList ==
    [][(Exec("InitList") /\ vm_pc' = "fetch")
        => LET n == Arg1
               pushed == deref(heap', stack'[mem_index'])
           IN /\ mem_index' = mem_index - n + 1
              /\ \A i \in 1..(mem_index - n) : stack'[i] = stack[i]
              /\ pushed.k = "List"
              /\ Len(pushed.v) = n
              /\ \A e \in 0..(n - 1) :
                    pushed.v[e + 1] = deref(heap, stack[mem_index - e])]_vars

C33_Witness ==
    /\ opcode = "InitList"
    /\ vm_pc = "fetch"
    /\ mem_index = 1
    /\ deref(heap, stack[1]) = List(<<Number(<<16368, 0, 0, 0>>), Number(<<0, 0, 0, 0>>)>>)

(***************************************************************************)
(* C34: InitDict n pops exactly 2n values as n pairs, each value above its *)
(* key (sp' = sp - 2n + 1), and pushes one dict that has every distinct    *)
(* key once; a key that several pairs have is mapped to the value of the   *)
(* pair that was pushed first, the deepest one in the stack.               *)
(***************************************************************************)
\* the key and the value of pair j of n, pair 1 being the deepest
PairKey(n, j) == get_text(deref(heap, stack[mem_index - 2 * n + 2 * j - 1]))
PairValue(n, j) == deref(heap, stack[mem_index - 2 * n + 2 * j])

C34_InitDict ==
    [][(Exec("InitDict") /\ vm_pc' = "fetch")
        => LET n == Arg1
               pushed == deref(heap', stack'[mem_index'])
           IN /\ mem_index' = mem_index - 2 * n + 1
              /\ \A i \in 1..(mem_index - 2 * n) : stack'[i] = stack[i]
              /\ pushed.k = "Dict"
              /\ {e[1] : e \in pushed.v} = {PairKey(n, j) : j \in 1..n}
              /\ \A e \in pushed.v :
                    \E j \in 1..n :
                        /\ PairKey(n, j) = e[1]
                        /\ \A i \in 1..(j - 1) : PairKey(n, i) # e[1]
                        /\ e[2] = PairValue(n, j)]_vars

C34_Witness ==
    /\ opcode = "InitDict"
    /\ vm_pc = "fetch"
    /\ mem_index = 1
    /\ deref(heap, stack[1]) =
        Dict({<<<<>>, Text(<<"a">>)>>, <<<<"a">>, Number(<<16368, 0, 0, 0>>)>>})

(***************************************************************************)
(* C35: every iteration of the dispatch loop leaves index strictly greater *)
(* than it found it, whatever the opcode and its operand bytes; so run_vm  *)
(* executes at most opcode_size - opcode_index instructions and, its       *)
(* native calls returning, terminates.                                     *)
(***************************************************************************)
C35_PcIncreases ==
    [][/\ index' >= index
       /\ (vm_pc = "exec" /\ vm_pc' = "fetch")
            => (/\ opcode_index <= index
                /\ index < opcode_size
                /\ index' > index)]_vars

C35_Witness ==
    /\ opcode = "Jump"
    /\ vm_pc = "fetch"
    /\ opcode_index = 0
    /\ index = 1

(***************************************************************************)
(* C36: when run_vm returns an error, options.opcode_index still has the   *)
(* value it had when run_vm was entered, and the memory slots written      *)
(* before the failing instruction keep their new values; a later run_vm    *)
(* starts again at the original address, not at the failing instruction.   *)
(***************************************************************************)
C36_ErrorKeepsEntry ==
    [][/\ vm_pc' # "ok" => opcode_index' = opcode_index
       /\ (vm_pc' = "err" /\ vm_pc # "err") =>
            /\ memory' = memory
            /\ runs = 1 => opcode_index' = 0
       /\ (vm_pc = "err" /\ vm_pc' = "fetch") =>
            /\ memory' = memory
            /\ index' = opcode_index
            /\ runs = 1 => index' = 0]_vars

C36_Witness ==
    /\ runs = 2
    /\ vm_pc = "fetch"
    /\ opcode = ""
    /\ index = 0
    /\ program = <<19, MemSize - 1, 1, 21, 9, 0>>
    /\ memory[MemSize] = Memory0[2]

(***************************************************************************)
(* C37: after run_vm has returned Ok, a second run_vm on the same options  *)
(* executes no instruction, invokes no native, leaves the memory and       *)
(* opcode_index as they are and returns Ok.                                *)
(***************************************************************************)
C37_RerunIsNoOp ==
    [][/\ (vm_pc = "ok" /\ vm_pc' = "fetch") =>
            /\ index' = opcode_index
            /\ index' >= opcode_size
            /\ memory' = memory
       /\ (runs > 1 /\ opcode_index >= opcode_size) =>
            /\ vm_pc \in {"fetch", "ok"}
            /\ vm_pc = "fetch" => vm_pc' = "ok"
            /\ opcode' = ""
            /\ vm_error' = ""
            /\ memory' = memory
            /\ opcode_index' = opcode_index
            /\ heap' = heap]_vars

C37_Witness ==
    /\ runs = 2
    /\ vm_pc = "ok"
    /\ opcode = ""
    /\ opcode_index >= opcode_size
    /\ memory # Memory0

\* ---------------------------------------------------------------------
\* C38  The storages a failed import leaves behind

\* C38: load_module appends the module's storage only after the module's
\* source was opened and parsed (a step that appends is the step of a Load
\* whose file is there and parses, it appends exactly one storage and leaves
\* the registry alone; a missing or unparsable file changes neither the
\* storages nor the registry); no step removes or rewrites a storage; and
\* when an import fails, options.storages holds the root storage, one storage
\* per listed module and one more for every module that was importing at the
\* time, none of which is registered.
C38_StoragesOutliveFailure ==
    [][/\ Len(storages') >= Len(storages)
       /\ SubSeq(storages', 1, Len(storages)) = storages
       /\ storages' # storages =>
            /\ InFind("Load")
            /\ files[Top.ast.path] \notin {Missing, Unparsable}
            /\ Len(storages') = Len(storages) + 1
            /\ registry' = registry
            /\ result' = "running"
       /\ (InFind("Load") /\ ShouldLoad(Top.ast.path)
             /\ files[Top.ast.path] \in {Missing, Unparsable}) =>
            /\ storages' = storages
            /\ registry' = registry
            /\ result' = "err"
       /\ (result = "running" /\ result' = "err") =>
            /\ Len(storages') = 1 + Len(modules') + Nest
            /\ \A m \in Loading : m \notin registry'
                                  /\ m \notin {modules'[k].name : k \in DOMAIN modules'}]_vars

\* m1 imported m2 and m2 imported m3, which could not be loaded: the
\* storages of m1 and m2 are there and no module is registered or listed
C38_Witness ==
    /\ result = "err"
    /\ main_ast = Load("m1")
    /\ files["m1"] = Load("m2")
    /\ files["m2"] = Load("m3")
    /\ files["m3"] \in {Missing, Unparsable}
    /\ Len(storages) = 3
    /\ registry = {}
    /\ modules = <<>>

\* ---------------------------------------------------------------------
\* C39  What one call of OperatorParser::parse consumes and emits

\* the two-character operators, as the pairs of characters that form them
TwoCharOperators ==
    {<<"!", "=">>, <<"/", "=">>, <<"/", "/">>, <<"/", "*">>, <<"+", "+">>, <<"+", "=">>,
     <<"-", "-">>, <<"-", "=">>, <<"<", "=">>, <<">", "=">>, <<"*", "=">>, <<"*", "/">>,
     <<"=", "=">>}

\* C39: every call of OperatorParser::parse moves the tokinizer on by at
\* least one character, the call that returns "Char not valid" included; by
\* exactly two when the current and the next character form a two-character
\* operator, and the token it then adds is that operator, not the one of the
\* first character alone (Equal for ==); a call that returns Ok adds exactly
\* one token, whose start is the position before anything was consumed,
\* unless the character is a carriage return, which is passed over without
\* a token.
C39_OperatorConsumption ==
    [][tk_index' # tk_index =>
         LET ch == data[tk_index + 1]
             two == /\ tk_index + 1 < Len(data)
                    /\ <<ch, data[tk_index + 2]>> \in TwoCharOperators
             added == tokens'[Len(tokens')]
         IN /\ tk_index' >= tk_index + 1
            /\ lex_result' \in {"ok", "Char not valid"}
            /\ lex_result' = "Char not valid" => tokens' = tokens
            /\ two =>
                 /\ tk_index' = tk_index + 2
                 /\ lex_result' = "ok"
                 /\ Len(tokens') = Len(tokens) + 1
                 /\ added.operator \notin {"None", OperatorSingle(ch)}
                 /\ <<ch, data[tk_index + 2]>> = <<"=", "=">> => added.operator = "Equal"
            /\ ~two => tk_index' = tk_index + 1
            /\ (lex_result' = "ok" /\ ch # "\r") =>
                 /\ Len(tokens') = Len(tokens) + 1
                 /\ SubSeq(tokens', 1, Len(tokens)) = tokens
                 /\ added.start = tk_index
                 /\ added.operator # "None"
            /\ ch = "\r" => (lex_result' = "ok" /\ tokens' = tokens)]_vars

\* the text == was lexed in one call: one Equal token at 0, both characters
\* consumed
C39_Witness ==
    /\ data = <<"=", "=">>
    /\ tk_index = 2
    /\ lex_result = "ok"
    /\ tokens = <<[start |-> 0, operator |-> "Equal"]>>

=============================================================================
